---- MODULE Spec2Model ----
(***************************************************************************)
(* Email Organizer AI: the triage orchestrator of main.py, run against a   *)
(* mailbox (gmail_client.py) and a classifier (ai_organizer.py) whose      *)
(* calls may succeed, be throttled or fail.                                *)
(***************************************************************************)
EXTENDS Integers, Sequences, FiniteSets, TLC

\* ------------------------------------------------------------------ bounds

\* Largest number of inbox messages fetched for one run.
MaxEmails == 2

\* The message identifiers of the mailbox.
MsgIds == 1..MaxEmails

\* Values of the RATE_LIMIT_DELAY setting: float(os.getenv(...)) accepts any
\* number, negative ones included.
Delays == {-1, 2}

\* Category names the classifier may answer with (any string is possible).
Categories == {"Notes", "notes", "Spam"}

\* Texts of the exceptions a mailbox or classifier call may raise.
ErrorTexts == {"RATE_LIMIT_EXCEEDED", "HttpError 429", "HttpError 500"}

\* Largest number of exceptions the calls of one run raise.
MaxFaults == 4

\* Largest number of them raised by a call that follows a classification.
MaxLateFaults == 1

\* ------------------------------------------------------- program constants

\* config.CATEGORIES_TO_KEEP, default value.
CATEGORIES_TO_KEEP == {"Notes", "Github"}

\* max_retries of the retry phase.
MAX_RETRIES == 3

\* The factor of the first retry delay: retry_delay = RATE_LIMIT_DELAY * 3.
RETRY_DELAY_FACTOR == 3

\* ------------------------------------------------------------ text helpers

\* str.lower() on the names and texts of the model.
Lower(s) ==
    CASE s = "Notes" -> "notes"
      [] s = "NOTES" -> "notes"
      [] s = "Github" -> "github"
      [] s = "Spam" -> "spam"
      [] s = "Work" -> "work"
      [] s = "RATE_LIMIT_EXCEEDED" -> "rate_limit_exceeded"
      [] s = "HttpError 429" -> "httperror 429"
      [] s = "HttpError 500" -> "httperror 500"
      [] s = "GITHUB" -> "github"
      [] s = "SPAM" -> "spam"
      [] s = "Inbox" -> "inbox"
      [] s = "INBOX" -> "inbox"
      [] s = "TRASH" -> "trash"
      [] s = "HTTP" -> "http"
      [] s = "HTTPS" -> "https"
      [] s = "MAILTO" -> "mailto"
      [] s = "FOO" -> "foo"
      [] s = "TK" -> "tk"
      [] s = "Bit" -> "bit"
      [] s = "LY" -> "ly"
      [] s = "List-Unsubscribe" -> "list-unsubscribe"
      [] s = "List-Unsubscribe-Post" -> "list-unsubscribe-post"
      [] s = "LIST-UNSUBSCRIBE" -> "list-unsubscribe"
      [] s = "EXAMPLE" -> "example"
      [] s = "COM" -> "com"
      [] s = "/UNSUBSCRIBE" -> "/unsubscribe"
      [] s = "/Opt-Out" -> "/opt-out"
      [] s = "NoReply@Example.com" -> "noreply@example.com"
      [] s = "NOREPLY@" -> "noreply@"
      [] OTHER -> s

\* 'rate_limit_exceeded' in s
ContainsRateLimitExceeded(s) ==
    s \in {"rate_limit_exceeded"}

\* '429' in s
Contains429(s) ==
    s \in {"HttpError 429", "httperror 429"}

IsRateLimitErrorNoLower(error_msg) ==
    ContainsRateLimitExceeded(error_msg) \/ Contains429(error_msg)

IsRateLimitErrorNever(error_msg) == FALSE

\* The test of the except clauses: is the failure a rate limit error?
IsRateLimitError(error_msg) ==
    ContainsRateLimitExceeded(Lower(error_msg)) \/ Contains429(error_msg)

\* ----------------------------------------------------------------- mailbox

\* The mailbox's labels are records [id, name]. System labels always exist.
SystemLabels ==
    {[id |-> "INBOX", name |-> "INBOX"], [id |-> "TRASH", name |-> "TRASH"]}

\* The identifier the mailbox gives a user label of this name.
UserLabelId(name) ==
    CASE name = "Notes" -> "Label_Notes"
      [] name = "notes" -> "Label_notes"
      [] name = "NOTES" -> "Label_NOTES"
      [] name = "Github" -> "Label_Github"
      [] name = "Work" -> "Label_Work"
      [] OTHER -> "Label_other"

UserLabel(name) == [id |-> UserLabelId(name), name |-> name]

\* The user labels a mailbox may hold when the run starts (label names are
\* unique in a mailbox whatever their letter case).
InitialUserLabels ==
    {{}, {UserLabel("notes")}}

SYSTEM_LABEL_NAMES ==
    {"spam", "trash", "inbox", "sent", "draft", "drafts", "important",
     "starred", "unread"}

\* SYSTEM_LABEL_MAP of create_label_if_not_exists.
SYSTEM_LABEL_MAP(label_lower) ==
    CASE label_lower = "spam" -> "SPAM"
      [] label_lower = "trash" -> "TRASH"
      [] label_lower = "inbox" -> "INBOX"
      [] label_lower = "sent" -> "SENT"
      [] label_lower = "draft" -> "DRAFT"
      [] label_lower = "drafts" -> "DRAFT"
      [] label_lower = "important" -> "IMPORTANT"
      [] label_lower = "starred" -> "STARRED"
      [] label_lower = "unread" -> "UNREAD"

create_label_matching_case(label_name, all_labels) ==
    LET label_lower == Lower(label_name)
        existing == {l \in all_labels : l.name = label_name}
    IN  IF label_lower \in SYSTEM_LABEL_NAMES
        THEN [id |-> SYSTEM_LABEL_MAP(label_lower), labels |-> all_labels]
        ELSE IF existing # {}
        THEN [id |-> (CHOOSE l \in existing : TRUE).id, labels |-> all_labels]
        ELSE [id |-> UserLabelId(label_name),
              labels |-> all_labels \cup {UserLabel(label_name)}]

\* create_label_if_not_exists: the label id returned and the mailbox's labels
\* afterwards.
create_label_if_not_exists(label_name, all_labels) ==
    LET label_lower == Lower(label_name)
        existing == {l \in all_labels : Lower(l.name) = label_lower}
    IN  IF label_lower \in SYSTEM_LABEL_NAMES
        THEN [id |-> SYSTEM_LABEL_MAP(label_lower), labels |-> all_labels]
        ELSE IF existing # {}
        THEN [id |-> (CHOOSE l \in existing : TRUE).id, labels |-> all_labels]
        ELSE [id |-> UserLabelId(label_name),
              labels |-> all_labels \cup {UserLabel(label_name)}]

\* apply_label: modify_message(labels_to_add=[label_id])
apply_label(label_ids, label_id) == label_ids \cup {label_id}

\* archive_email: modify_message(labels_to_remove=['INBOX'])
archive_email(label_ids) == label_ids \ {"INBOX"}

\* trash_email: messages().trash adds TRASH and takes the message out of the inbox.
trash_email(label_ids) == (label_ids \ {"INBOX"}) \cup {"TRASH"}

CategoryLabelIdsExactOnly(all_labels) ==
    {l.id : l \in {x \in all_labels : x.name \in CATEGORIES_TO_KEEP}}

\* category_label_ids: the ids of the labels named like a keep category.
CategoryLabelIds(all_labels) ==
    {l.id : l \in {x \in all_labels :
        \/ x.name \in CATEGORIES_TO_KEEP
        \/ Lower(x.name) \in {Lower(cat) : cat \in CATEGORIES_TO_KEEP}}}

AlreadyLabeledNever(existing_labels, label_ids) == FALSE

\* already_labeled = any(label_id in category_label_ids for label_id in existing_labels)
AlreadyLabeled(existing_labels, label_ids) ==
    \E label_id \in existing_labels : label_id \in label_ids

DecideIgnoringCase(category) ==
    IF Lower(category) \in {Lower(cat) : cat \in CATEGORIES_TO_KEEP}
    THEN "Keep" ELSE "Trash"

\* if category in config.CATEGORIES_TO_KEEP: keep, else: trash
Decide(category) ==
    IF category \in CATEGORIES_TO_KEEP THEN "Keep" ELSE "Trash"

\* ------------------------------------------------------------------ state

VARIABLES
    emails,                  \* the fetched inbox messages, in listing order
    RATE_LIMIT_DELAY,        \* config.RATE_LIMIT_DELAY
    category_label_ids,      \* label ids of the idempotency check
    all_labels,              \* the mailbox's labels
    msg_labels,              \* the mailbox's label ids of each message
    pc,                      \* "main", "retry", "round", "summary", "done", "fatal"
    idx,                     \* position of the main pass (1-based)
    processed_count,
    skipped_already_labeled,
    skipped_rate_limit,
    category_counts,
    kept_count,
    trashed_count,
    rate_limited_emails,     \* the retry queue
    retry_delay,
    retry_attempt,           \* retry rounds begun so far
    email_idx,               \* position in the retry round (1-based)
    remaining_emails,
    summary,                 \* what the run prints and logs at its end
    errors_logged,           \* "Error processing email" lines logged
    sleeps,                  \* the waits requested at the start of each retry round
    faults,                  \* exceptions raised by the calls of the attempts
    late_faults,             \* those raised after a classification
    results,                 \* per message: how each of its attempts ended
    classifiedOk,            \* per message: categorize_email calls that returned
    last,                    \* the attempt the latest step made, if it made one
    run,                     \* the runs started on this mailbox so far
    labeled_at_start,        \* the fetched messages that carried a user label when the run started
    label_calls,             \* the create_label_if_not_exists calls of a label session
    now,                     \* time.time(), in ticks
    last_request_time,       \* UnsubscribeHandler.last_request_time, in ticks
    unsub,                   \* the latest unsubscribe() call and what it did
    checked,                 \* the latest _is_safe_url() call and its verdict
    extracted,               \* the latest extract_unsubscribe_info() call and its result
    gated                    \* the latest should_unsubscribe() call and its answer

settings == <<emails, RATE_LIMIT_DELAY, category_label_ids>>

mailbox == <<all_labels, msg_labels>>

counters ==
    <<processed_count, skipped_already_labeled, category_counts, kept_count,
      trashed_count>>

retry_state == <<rate_limited_emails, retry_delay, retry_attempt, email_idx,
                 remaining_emails>>

history == <<errors_logged, faults, late_faults, results, classifiedOk>>

resume == <<run, labeled_at_start>>

handler == <<now, last_request_time, unsub>>

\* The calls of the handler's functions that keep no state.
calls == <<checked, extracted, gated>>

\* What a step of a triage run leaves alone.
elsewhere == <<label_calls, handler, calls>>

vars ==
    <<settings, mailbox, counters, retry_state, history, pc, idx,
      skipped_rate_limit, summary, sleeps, last, resume, elsewhere>>

\* ------------------------------------------------- one attempt on a message

\* The calls of one attempt, in the order the loop body makes them.
PreCalls ==
    <<"get_message_labels", "get_message_subject", "get_message",
      "categorize_email">>

KeepCalls ==
    <<"summarize_email", "extract_action_items", "create_label_if_not_exists",
      "apply_label", "archive_email">>

TrashCalls == <<"trash_email">>

Calls == {"get_message_labels", "get_message_subject", "get_message",
          "categorize_email", "summarize_email", "extract_action_items",
          "create_label_if_not_exists", "apply_label", "archive_email",
          "trash_email"}

MutationCalls == {"create_label_if_not_exists", "apply_label", "archive_email",
                  "trash_email"}

CallPlanSummarizeAlways(already_labeled, category) ==
    IF already_labeled
    THEN <<"get_message_labels">>
    ELSE PreCalls \o <<"summarize_email", "extract_action_items">>
         \o (IF Decide(category) = "Keep"
             THEN <<"create_label_if_not_exists", "apply_label", "archive_email">>
             ELSE TrashCalls)

\* A loop body that sends the message to trash before it asks the classifier.
CallPlanTrashBeforeClassifying(already_labeled, category) ==
    IF already_labeled
    THEN <<"get_message_labels">>
    ELSE IF Decide(category) = "Keep"
    THEN PreCalls \o KeepCalls
    ELSE <<"get_message_labels", "get_message_subject", "get_message">>
         \o TrashCalls \o <<"categorize_email">>

\* The calls an attempt makes when none fails.
CallPlan(already_labeled, category) ==
    IF already_labeled
    THEN <<"get_message_labels">>
    ELSE PreCalls \o (IF Decide(category) = "Keep" THEN KeepCalls ELSE TrashCalls)

\* time.sleep raises ValueError for a negative length.
SleepRaises(seconds) == seconds < 0

ExceptionKindAllRetried(error_msg) == "throttled"

\* The branch the except clause takes for an exception with this text.
ExceptionKind(error_msg) ==
    IF IsRateLimitError(error_msg) THEN "throttled" ELSE "error"

\* The body of the try block for one message: `category` is what the classifier
\* answers if asked, `fail` the call that raises (if it is reached) and
\* `error_msg` the text of its exception. A call that raises has no effect.
ProcessEmail(existing_labels, labels, label_ids, category, fail, error_msg) ==
    LET already == AlreadyLabeled(existing_labels, label_ids)
        plan == CallPlan(already, category)
        failPos == IF \E i \in 1..Len(plan) : plan[i] = fail
                   THEN CHOOSE i \in 1..Len(plan) : plan[i] = fail
                   ELSE 0
        issued == IF failPos = 0 THEN plan ELSE SubSeq(plan, 1, failPos)
        returned == {plan[i] : i \in 1..(IF failPos = 0 THEN Len(plan) ELSE failPos - 1)}
        created == IF "create_label_if_not_exists" \in returned
                   THEN create_label_if_not_exists(category, labels)
                   ELSE [id |-> "none", labels |-> labels]
        l1 == IF "apply_label" \in returned
              THEN apply_label(existing_labels, created.id) ELSE existing_labels
        l2 == IF "archive_email" \in returned THEN archive_email(l1) ELSE l1
        l3 == IF "trash_email" \in returned THEN trash_email(l2) ELSE l2
    IN  [result |-> IF failPos # 0 THEN ExceptionKind(error_msg)
                    ELSE IF already THEN "skipped"
                    ELSE IF Decide(category) = "Keep" THEN "kept" ELSE "trashed",
         error |-> IF failPos # 0 THEN error_msg ELSE "none",
         issued |-> issued,
         checked |-> "get_message_labels" \in returned,
         called |-> \E i \in 1..Len(issued) : issued[i] = "categorize_email",
         classified |-> "categorize_email" \in returned,
         category |-> IF "categorize_email" \in returned THEN category ELSE "none",
         msg_labels |-> l3,
         labels |-> created.labels]

\* What may happen in one attempt: the category the classifier answers with if
\* it is asked and returns, the call that raises (or "none") and the text of
\* its exception. Each course of an attempt is listed once: the category
\* "Spam" stands for any when the classifier does not return, and only a call
\* the attempt can reach is named.
Scenarios ==
    {sc \in [category : Categories, fail : Calls \cup {"none"}, error_msg : ErrorTexts] :
        /\ sc.fail = "none" => sc.error_msg = "HttpError 500"
        /\ sc.fail \in {PreCalls[i] : i \in 1..Len(PreCalls)} => sc.category = "Spam"
        /\ sc.fail \in {KeepCalls[i] : i \in 1..Len(KeepCalls)} => Decide(sc.category) = "Keep"
        /\ sc.fail \in {TrashCalls[i] : i \in 1..Len(TrashCalls)} => Decide(sc.category) = "Trash"}

\* The scenarios the bounds on the raised exceptions leave.
Possible(sc) ==
    \/ sc.fail = "none"
    \/ /\ faults < MaxFaults
       /\ \/ sc.fail \in {PreCalls[i] : i \in 1..Len(PreCalls)}
          \/ late_faults < MaxLateFaults

CountAttemptEveryoneKept(r) ==
    /\ category_counts' =
         IF r.classified
         THEN [category_counts EXCEPT ![r.category] = @ + 1]
         ELSE category_counts
    /\ kept_count' = kept_count + (IF r.result \in {"kept", "trashed"} THEN 1 ELSE 0)
    /\ trashed_count' = trashed_count + (IF r.result = "trashed" THEN 1 ELSE 0)
    /\ processed_count' =
         processed_count + (IF r.result \in {"kept", "trashed"} THEN 1 ELSE 0)
    /\ skipped_already_labeled' =
         skipped_already_labeled + (IF r.result = "skipped" THEN 1 ELSE 0)

\* Counters that take a message as processed as soon as it is classified.
CountAttemptProcessedAtClassification(r) ==
    /\ category_counts' =
         IF r.classified
         THEN [category_counts EXCEPT ![r.category] = @ + 1]
         ELSE category_counts
    /\ kept_count' = kept_count + (IF r.result = "kept" THEN 1 ELSE 0)
    /\ trashed_count' = trashed_count + (IF r.result = "trashed" THEN 1 ELSE 0)
    /\ processed_count' = processed_count + (IF r.classified THEN 1 ELSE 0)
    /\ skipped_already_labeled' =
         skipped_already_labeled + (IF r.result = "skipped" THEN 1 ELSE 0)

\* The counters after an attempt that ended as `r`.
CountAttempt(r) ==
    /\ category_counts' =
         IF r.classified
         THEN [category_counts EXCEPT ![r.category] = @ + 1]
         ELSE category_counts
    /\ kept_count' = kept_count + (IF r.result = "kept" THEN 1 ELSE 0)
    /\ trashed_count' = trashed_count + (IF r.result = "trashed" THEN 1 ELSE 0)
    /\ processed_count' =
         processed_count + (IF r.result \in {"kept", "trashed"} THEN 1 ELSE 0)
    /\ skipped_already_labeled' =
         skipped_already_labeled + (IF r.result = "skipped" THEN 1 ELSE 0)

\* What an attempt on `email_id` leaves in the mailbox, and the record of the
\* attempt: `outcome` is how the loop body ended and `error` the text of the
\* exception that ended it ("none" without one).
RecordAttempt(email_id, r, outcome, error, phase, slept) ==
    /\ msg_labels' = [msg_labels EXCEPT ![email_id] = r.msg_labels]
    /\ all_labels' = r.labels
    /\ results' = [results EXCEPT ![email_id] = Append(@, outcome)]
    /\ classifiedOk' =
         [classifiedOk EXCEPT ![email_id] = @ + (IF r.classified THEN 1 ELSE 0)]
    /\ errors_logged' = errors_logged + (IF outcome = "error" THEN 1 ELSE 0)
    /\ faults' = faults + (IF outcome \in {"throttled", "error"} THEN 1 ELSE 0)
    /\ late_faults' =
         late_faults + (IF r.classified /\ outcome \in {"throttled", "error"} THEN 1 ELSE 0)
    /\ last' = [msg |-> email_id, phase |-> phase, result |-> r.result,
                outcome |-> outcome, error |-> error, issued |-> r.issued,
                checked |-> r.checked, called |-> r.called,
                classified |-> r.classified, category |-> r.category,
                slept |-> slept]

\* -------------------------------------------------------------- the run

NoAttempt ==
    [msg |-> 0, phase |-> "none", result |-> "none", outcome |-> "none",
     error |-> "none", issued |-> <<>>, checked |-> FALSE, called |-> FALSE,
     classified |-> FALSE, category |-> "none", slept |-> 0]

\* The label ids a fetched message may carry when the run starts.
InitialMsgLabels(labels) ==
    {{"INBOX"}} \cup {{"INBOX", l.id} : l \in labels \ SystemLabels}

\* The fetched messages that carry a user label.
LabeledMessages(fetched, labels_of) ==
    {fetched[i] : i \in {j \in 1..Len(fetched) : labels_of[fetched[j]] \ {"INBOX", "TRASH"} # {}}}

\* self.min_request_interval = 1.0, in ticks of half a second.
min_request_interval == 2

\* No unsubscribe() call was made yet.
NoCall == [made |-> FALSE]

\* A handler right after __init__: last_request_time = 0, and time.time() is
\* far more than min_request_interval after 0.
HandlerInit ==
    /\ now = min_request_interval
    /\ last_request_time = 0
    /\ unsub = NoCall
    /\ checked = NoCall
    /\ extracted = NoCall
    /\ gated = NoCall

\* The state when the loop over the fetched messages starts: the messages are
\* fetched, the counters are zero and category_label_ids is computed.
Init ==
    /\ \E n \in 0..MaxEmails : emails = [i \in 1..n |-> i]
    /\ RATE_LIMIT_DELAY \in Delays
    /\ \E user \in InitialUserLabels : all_labels = SystemLabels \cup user
    /\ msg_labels \in [MsgIds -> InitialMsgLabels(all_labels) \cup {{}}]
    /\ \A m \in MsgIds : m <= Len(emails) <=> "INBOX" \in msg_labels[m]
    /\ category_label_ids = CategoryLabelIds(all_labels)
    /\ pc = "main"
    /\ idx = 1
    /\ processed_count = 0
    /\ skipped_already_labeled = 0
    /\ skipped_rate_limit = 0
    /\ category_counts = [c \in Categories |-> 0]
    /\ kept_count = 0
    /\ trashed_count = 0
    /\ rate_limited_emails = <<>>
    /\ retry_delay = 0
    /\ retry_attempt = 0
    /\ email_idx = 1
    /\ remaining_emails = <<>>
    /\ summary = <<>>
    /\ errors_logged = 0
    /\ sleeps = <<>>
    /\ faults = 0
    /\ late_faults = 0
    /\ results = [m \in MsgIds |-> <<>>]
    /\ classifiedOk = [m \in MsgIds |-> 0]
    /\ last = NoAttempt
    /\ run = 1
    /\ labeled_at_start = LabeledMessages(emails, msg_labels)
    /\ label_calls = <<>>
    /\ HandlerInit

PacingSleepAfterEveryEmail(result, position, count, delay) ==
    IF position < count /\ delay > 0 THEN delay ELSE 0

\* The pacing delay of the main pass after the message at `position` of
\* `count`: none after a `continue` (already labeled, or an exception).
PacingSleep(result, position, count, delay) ==
    IF result \in {"kept", "trashed"} /\ position < count /\ delay > 0
    THEN delay
    ELSE 0

EnqueueAlways(queue, email_id, outcome) ==
    IF outcome \in {"throttled", "error"} THEN Append(queue, email_id) ELSE queue

\* rate_limited_emails.append / remaining_emails.append of the except clauses.
Enqueue(queue, email_id, outcome) ==
    IF outcome = "throttled" THEN Append(queue, email_id) ELSE queue

\* One iteration of the main loop.
MainAttempt ==
    /\ pc = "main"
    /\ idx <= Len(emails)
    /\ \E sc \in Scenarios :
         LET email_id == emails[idx]
             r == ProcessEmail(msg_labels[email_id], all_labels, category_label_ids,
                               sc.category, sc.fail, sc.error_msg)
         IN  /\ Possible(sc)
             /\ CountAttempt(r)
             /\ RecordAttempt(email_id, r, r.result, r.error, "main",
                              PacingSleep(r.result, idx, Len(emails), RATE_LIMIT_DELAY))
             /\ rate_limited_emails' = Enqueue(rate_limited_emails, email_id, r.result)
    /\ idx' = idx + 1
    /\ UNCHANGED <<resume, elsewhere, settings, pc, skipped_rate_limit, retry_delay, retry_attempt,
                   email_idx, remaining_emails, summary, sleeps>>

FirstRetryDelayBase(delay) == delay

\* retry_delay = config.RATE_LIMIT_DELAY * 3
FirstRetryDelay(delay) == delay * RETRY_DELAY_FACTOR

\* The main loop is over and messages hit the rate limit: the retry phase begins.
BeginRetryPhase ==
    /\ pc = "main"
    /\ idx > Len(emails)
    /\ rate_limited_emails # <<>>
    /\ retry_delay' = FirstRetryDelay(RATE_LIMIT_DELAY)
    /\ retry_attempt' = 0
    /\ pc' = "retry"
    /\ last' = NoAttempt
    /\ UNCHANGED <<resume, elsewhere, settings, mailbox, counters, history, idx, skipped_rate_limit,
                   rate_limited_emails, email_idx, remaining_emails, summary,
                   sleeps>>

\* The main loop is over and no message hit the rate limit.
SkipRetryPhase ==
    /\ pc = "main"
    /\ idx > Len(emails)
    /\ rate_limited_emails = <<>>
    /\ pc' = "summary"
    /\ last' = NoAttempt
    /\ UNCHANGED <<resume, elsewhere, settings, mailbox, counters, history, retry_state, idx,
                   skipped_rate_limit, summary, sleeps>>

RetryLoopGoesOnUnbounded(attempt, queue) == queue # <<>>

\* for retry_attempt in range(max_retries): if not rate_limited_emails: break
RetryLoopGoesOn(attempt, queue) == attempt < MAX_RETRIES /\ queue # <<>>

\* A retry round begins: the wait before it, then the round's own queue.
BeginRetryRound ==
    /\ pc = "retry"
    /\ RetryLoopGoesOn(retry_attempt, rate_limited_emails)
    /\ ~SleepRaises(retry_delay)
    /\ sleeps' = Append(sleeps, retry_delay)
    /\ retry_attempt' = retry_attempt + 1
    /\ remaining_emails' = <<>>
    /\ email_idx' = 1
    /\ pc' = "round"
    /\ last' = NoAttempt
    /\ UNCHANGED <<resume, elsewhere, settings, mailbox, counters, history, idx, skipped_rate_limit,
                   rate_limited_emails, retry_delay, summary>>

\* The wait before a retry round raises: the exception leaves the loops and
\* reaches the outer except clause, which logs "Fatal error" and raises again.
RetrySleepFails ==
    /\ pc = "retry"
    /\ RetryLoopGoesOn(retry_attempt, rate_limited_emails)
    /\ SleepRaises(retry_delay)
    /\ sleeps' = Append(sleeps, retry_delay)
    /\ pc' = "fatal"
    /\ last' = NoAttempt
    /\ UNCHANGED <<resume, elsewhere, settings, mailbox, counters, history, retry_state, idx,
                   skipped_rate_limit, summary>>

\* The wait between two messages of a retry round (not after the last one).
RetryPacingSleep(result, position, count, delay) ==
    IF result \in {"kept", "trashed"} /\ position < count THEN delay ELSE 0

\* One iteration of the loop of a retry round.
RetryAttempt ==
    /\ pc = "round"
    /\ email_idx <= Len(rate_limited_emails)
    /\ \E sc \in Scenarios :
         LET email_id == rate_limited_emails[email_idx]
             r == ProcessEmail(msg_labels[email_id], all_labels, category_label_ids,
                               sc.category, sc.fail, sc.error_msg)
             wait == RetryPacingSleep(r.result, email_idx,
                                      Len(rate_limited_emails), retry_delay)
             raises == wait # 0 /\ SleepRaises(wait)
             outcome == IF raises
                        THEN ExceptionKind("sleep length must be non-negative")
                        ELSE r.result
             error == IF raises THEN "sleep length must be non-negative" ELSE r.error
         IN  /\ Possible(sc)
             /\ CountAttempt(r)
             /\ RecordAttempt(email_id, r, outcome, error, "retry", wait)
             /\ remaining_emails' = Enqueue(remaining_emails, email_id, outcome)
    /\ email_idx' = email_idx + 1
    /\ UNCHANGED <<resume, elsewhere, settings, pc, idx, skipped_rate_limit, rate_limited_emails,
                   retry_delay, retry_attempt, summary, sleeps>>

NextRetryDelayTriple(delay, queue) == IF queue # <<>> THEN delay * 3 ELSE delay

\* if rate_limited_emails: retry_delay *= 2
NextRetryDelay(delay, queue) == IF queue # <<>> THEN delay * 2 ELSE delay

\* The end of a retry round: the still-throttled messages are the next queue.
EndRetryRound ==
    /\ pc = "round"
    /\ email_idx > Len(rate_limited_emails)
    /\ rate_limited_emails' = remaining_emails
    /\ retry_delay' = NextRetryDelay(retry_delay, remaining_emails)
    /\ pc' = "retry"
    /\ last' = NoAttempt
    /\ UNCHANGED <<resume, elsewhere, settings, mailbox, counters, history, idx, skipped_rate_limit,
                   retry_attempt, email_idx, remaining_emails, summary, sleeps>>

SkippedRateLimitZero(queue) == 0

\* skipped_rate_limit = len(rate_limited_emails)
SkippedRateLimit(queue) == Len(queue)

\* The retry loop is left: what is still queued is counted as skipped.
EndRetryPhase ==
    /\ pc = "retry"
    /\ ~RetryLoopGoesOn(retry_attempt, rate_limited_emails)
    /\ skipped_rate_limit' = SkippedRateLimit(rate_limited_emails)
    /\ pc' = "summary"
    /\ last' = NoAttempt
    /\ UNCHANGED <<resume, elsewhere, settings, mailbox, counters, history, retry_state, idx,
                   summary, sleeps>>

SummaryOutputWithoutSkipped ==
    [f \in {"Total Fetched", "Total Processed"} |->
        IF f = "Total Fetched" THEN Len(emails) ELSE processed_count]

\* The numbers of the printed categorization results and of the final log
\* line, by the name they are printed under: the skipped counts only when
\* positive, the per-category, kept and trashed counts only when a message
\* was categorized.
SummaryOutput ==
    LET cats == {c \in Categories : category_counts[c] > 0}
        fields ==
            {"Total Fetched", "Total Processed"}
            \cup (IF skipped_already_labeled > 0 THEN {"Skipped (already labeled)"} ELSE {})
            \cup (IF skipped_rate_limit > 0 THEN {"Skipped (rate limits)"} ELSE {})
            \cup (IF cats # {} THEN cats \cup {"Kept", "Trashed"} ELSE {})
    IN  [f \in fields |->
            CASE f = "Total Fetched" -> Len(emails)
              [] f = "Total Processed" -> processed_count
              [] f = "Skipped (already labeled)" -> skipped_already_labeled
              [] f = "Skipped (rate limits)" -> skipped_rate_limit
              [] f = "Kept" -> kept_count
              [] f = "Trashed" -> trashed_count
              [] OTHER -> category_counts[f]]

\* The results are printed and the run ends.
Summarize ==
    /\ pc = "summary"
    /\ summary' = SummaryOutput
    /\ pc' = "done"
    /\ last' = NoAttempt
    /\ UNCHANGED <<resume, elsewhere, settings, mailbox, counters, history, retry_state, idx,
                   skipped_rate_limit, sleeps>>

Next ==
    \/ MainAttempt
    \/ BeginRetryPhase
    \/ SkipRetryPhase
    \/ BeginRetryRound
    \/ RetrySleepFails
    \/ RetryAttempt
    \/ EndRetryRound
    \/ EndRetryPhase
    \/ Summarize

Spec == Init /\ [][Next]_vars

\* The run is one sequential process: a step that can be taken is taken.
FairSpec == Spec /\ WF_vars(Next)

\* ------------------------------------------------- a run after a run

\* Largest number of runs started on the mailbox.
MaxRuns == 2

\* fetch_emails(query='in:inbox'): the messages of the inbox.
RECURSIVE fetch_emails(_, _)
fetch_emails(labels_of, from) ==
    IF from > MaxEmails THEN <<>>
    ELSE (IF "INBOX" \in labels_of[from] THEN <<from>> ELSE <<>>)
         \o fetch_emails(labels_of, from + 1)

StaleCategoryLabelIds(known_ids, labels) == known_ids

\* What a starting run takes for category_label_ids: nothing is kept from an
\* earlier run, the ids are computed from the labels the mailbox has now.
StartingCategoryLabelIds(known_ids, labels) == CategoryLabelIds(labels)

\* The process ends here (it is killed, it aborts, or it has finished) and a
\* new run starts on the mailbox as the ended run left it. Ending inside an
\* iteration, after one of its calls, leaves the mailbox as an iteration
\* whose next call raises does.
Restart ==
    /\ run < MaxRuns
    /\ run' = run + 1
    /\ emails' = fetch_emails(msg_labels, 1)
    /\ category_label_ids' = StartingCategoryLabelIds(category_label_ids, all_labels)
    /\ labeled_at_start' = LabeledMessages(emails', msg_labels)
    /\ pc' = "main"
    /\ idx' = 1
    /\ processed_count' = 0
    /\ skipped_already_labeled' = 0
    /\ skipped_rate_limit' = 0
    /\ category_counts' = [c \in Categories |-> 0]
    /\ kept_count' = 0
    /\ trashed_count' = 0
    /\ rate_limited_emails' = <<>>
    /\ retry_delay' = 0
    /\ retry_attempt' = 0
    /\ email_idx' = 1
    /\ remaining_emails' = <<>>
    /\ summary' = <<>>
    /\ errors_logged' = 0
    /\ sleeps' = <<>>
    /\ results' = [m \in MsgIds |-> <<>>]
    /\ classifiedOk' = [m \in MsgIds |-> 0]
    /\ last' = NoAttempt
    /\ UNCHANGED <<RATE_LIMIT_DELAY, mailbox, faults, late_faults, elsewhere>>

ResumeNext ==
    \/ Next
    \/ Restart

ResumeSpec == Init /\ [][ResumeNext]_vars

\* --------------------------------------------- the labels of a mailbox

\* Largest number of create_label_if_not_exists calls in a label session.
MaxLabelCalls == 3

\* The names label creation is asked for.
LabelNames == {"Notes", "notes", "NOTES", "Github", "Work", "Spam", "SPAM", "Inbox"}

\* The user labels a mailbox may hold: a mailbox has no two labels whose
\* names differ only in letter case.
LabelSets ==
    {notes \cup github \cup work :
        notes \in {{}, {UserLabel("Notes")}, {UserLabel("notes")}, {UserLabel("NOTES")}},
        github \in {{}, {UserLabel("Github")}},
        work \in {{}, {UserLabel("Work")}}}

\* No triage run is in progress.
NoRun ==
    /\ emails = <<>>
    /\ RATE_LIMIT_DELAY = 2
    /\ msg_labels = [m \in MsgIds |-> {}]
    /\ idx = 1
    /\ processed_count = 0
    /\ skipped_already_labeled = 0
    /\ skipped_rate_limit = 0
    /\ category_counts = [c \in Categories |-> 0]
    /\ kept_count = 0
    /\ trashed_count = 0
    /\ rate_limited_emails = <<>>
    /\ retry_delay = 0
    /\ retry_attempt = 0
    /\ email_idx = 1
    /\ remaining_emails = <<>>
    /\ summary = <<>>
    /\ errors_logged = 0
    /\ sleeps = <<>>
    /\ faults = 0
    /\ late_faults = 0
    /\ results = [m \in MsgIds |-> <<>>]
    /\ classifiedOk = [m \in MsgIds |-> 0]
    /\ last = NoAttempt
    /\ run = 1
    /\ labeled_at_start = {}

\* A mailbox with some labels, before the run has read them.
LabelInit ==
    /\ NoRun
    /\ \E user \in LabelSets : all_labels = SystemLabels \cup user
    /\ category_label_ids = {}
    /\ pc = "start"
    /\ label_calls = <<>>
    /\ HandlerInit

\* What label sessions leave alone.
no_run ==
    <<emails, RATE_LIMIT_DELAY, msg_labels, counters, retry_state, history, idx,
      skipped_rate_limit, summary, sleeps, last, resume, handler, calls>>

\* The run reads the mailbox's labels and computes category_label_ids.
ReadLabels ==
    /\ pc = "start"
    /\ category_label_ids' = CategoryLabelIds(all_labels)
    /\ pc' = "labels"
    /\ UNCHANGED <<all_labels, label_calls, no_run>>

\* One call of create_label_if_not_exists.
CreateLabel ==
    /\ pc = "labels"
    /\ Len(label_calls) < MaxLabelCalls
    /\ \E label_name \in LabelNames :
         LET r == create_label_if_not_exists(label_name, all_labels)
         IN  /\ all_labels' = r.labels
             /\ label_calls' =
                  Append(label_calls, [name |-> label_name, id |-> r.id, had |-> all_labels])
    /\ UNCHANGED <<category_label_ids, pc, no_run>>

LabelNext ==
    \/ ReadLabels
    \/ CreateLabel

LabelSpec == LabelInit /\ [][LabelNext]_vars

\* ------------------------------------------------- unsubscribe handler

\* A text is a sequence of pieces (strings); a URL is the sequence of the
\* pieces urlparse and the patterns tell apart.

\* url is None.
NoUrl == <<"<None>">>

\* The dictionary has no 'url' key.
MissingUrl == <<"<missing>">>

\* method is None.
NoMethod == "<None>"

Urls ==
    {<<"https", "://", "example", ".", "com", "/unsubscribe">>,
     <<"http", "://", "192", ".", "168", ".", "1", ".", "1", "/unsubscribe">>,
     <<"http", "://", "bit", ".", "ly", "/x">>,
     <<"http", "://", "foo", ".", "tk", "/x">>,
     <<"mailto", ":", "u", "@", "example", ".", "com">>,
     <<"ftp", "://", "example", ".", "com", "/x">>,
     <<"example", ".", "com", "/unsubscribe">>,
     <<>>, NoUrl, MissingUrl}

Methods == {"one-click", "http", "mailto", "web", "sms", NoMethod}

\* The unsubscribe_info dictionaries unsubscribe() is called with.
Infos == [has_unsubscribe : BOOLEAN, method : Methods, url : Urls]

\* unsubscribe_info.get('url')
GetUrl(info) == IF info.url = MissingUrl THEN NoUrl ELSE info.url

\* The truth value of a url: None and '' are false.
Truthy(url) == url \notin {NoUrl, <<>>}

\* str(x) inside an f-string.
FormatMethod(method) == IF method = NoMethod THEN "None" ELSE method

FormatUrl(url) == IF url = NoUrl THEN <<"None">> ELSE url

\* Pieces that end a netloc (the path, the query or the fragment follows).
PathPieces == {"/unsubscribe", "/x", "?id=123", "#top"}

SchemeSeparators == {"://", ":"}

\* The pieces that consist of decimal digits only.
DigitPieces == {"1", "168", "192", "8080"}

\* The pieces of at most three digits.
ShortDigitPieces == {"1", "168", "192"}

\* The pieces that are delimiters of a netloc, not part of a name.
DelimiterPieces == {".", ":", "@", "://"}

\* urlparse(url): the scheme in lower case and the netloc.
urlparse(url) ==
    LET hasScheme == /\ Len(url) >= 2
                     /\ url[2] \in SchemeSeparators
                     /\ url[1] \notin DelimiterPieces \cup PathPieces \cup DigitPieces
        ends == {i \in 3..Len(url) : url[i] \in PathPieces}
        stop == IF ends = {} THEN Len(url) + 1
                ELSE CHOOSE i \in ends : \A j \in ends : i <= j
    IN  [scheme |-> IF hasScheme THEN Lower(url[1]) ELSE "",
         netloc |-> IF hasScheme /\ url[2] = "://" THEN SubSeq(url, 3, stop - 1) ELSE <<>>]

\* url.startswith('mailto:')
StartsWithMailto(url) == Len(url) >= 2 /\ url[1] = "mailto" /\ url[2] = ":"

\* piece ends with word / starts with word, ignoring case.
PieceEndsWith(piece, word) ==
    Lower(piece) = word \/ <<Lower(piece), word>> \in {<<"rabbit", "bit">>}

PieceStartsWith(piece, word) ==
    Lower(piece) = word
    \/ <<Lower(piece), word>> \in {<<"community", "com">>, <<"lyft", "ly">>}

\* SUSPICIOUS_PATTERNS, in order.
SUSPICIOUS_PATTERNS ==
    <<[kind |-> "ipv4", a |-> "", b |-> ""],
      [kind |-> "tld", a |-> "tk", b |-> ""],
      [kind |-> "tld", a |-> "ml", b |-> ""],
      [kind |-> "domain", a |-> "bit", b |-> "ly"],
      [kind |-> "domain", a |-> "tinyurl", b |-> "com"],
      [kind |-> "domain", a |-> "goo", b |-> "gl"]>>

\* re.search(pattern, netloc, re.IGNORECASE)
Search(pattern, netloc) ==
    CASE pattern.kind = "ipv4" ->
            \E i \in 1..(Len(netloc) - 6) :
                /\ netloc[i] \in DigitPieces
                /\ netloc[i + 1] = "."
                /\ netloc[i + 2] \in ShortDigitPieces
                /\ netloc[i + 3] = "."
                /\ netloc[i + 4] \in ShortDigitPieces
                /\ netloc[i + 5] = "."
                /\ netloc[i + 6] \in DigitPieces
      [] pattern.kind = "tld" ->
            /\ Len(netloc) >= 3
            /\ Lower(netloc[Len(netloc)]) = pattern.a
            /\ netloc[Len(netloc) - 1] = "."
            /\ netloc[Len(netloc) - 2] \notin DelimiterPieces
      [] pattern.kind = "domain" ->
            \E i \in 1..(Len(netloc) - 2) :
                /\ PieceEndsWith(netloc[i], pattern.a)
                /\ netloc[i + 1] = "."
                /\ PieceStartsWith(netloc[i + 2], pattern.b)

\* A validator that accepts every scheme and every host.
is_safe_url_any_scheme(url) ==
    IF ~Truthy(url) THEN FALSE
    ELSE IF StartsWithMailto(url) THEN TRUE
    ELSE LET parsed == urlparse(url)
         IN  parsed.scheme # "" /\ parsed.netloc # <<>>

\* _is_safe_url
is_safe_url(url) ==
    IF ~Truthy(url) THEN FALSE
    ELSE IF StartsWithMailto(url) THEN TRUE
    ELSE LET parsed == urlparse(url)
         IN  IF parsed.scheme = "" \/ parsed.netloc = <<>> THEN FALSE
             ELSE IF parsed.scheme \notin {"http", "https"} THEN FALSE
             ELSE ~\E i \in 1..Len(SUSPICIOUS_PATTERNS) :
                      Search(SUSPICIOUS_PATTERNS[i], parsed.netloc)

\* HTTP status codes a server answers with.
Statuses == {200, 201, 202, 203, 204, 301, 404, 500}

\* str(status_code)
StatusText(code) ==
    CASE code = 200 -> "200" [] code = 201 -> "201" [] code = 202 -> "202"
      [] code = 203 -> "203" [] code = 204 -> "204" [] code = 301 -> "301"
      [] code = 404 -> "404" [] code = 500 -> "500"

\* What requests.post / requests.get does: a response, or an exception.
Transports ==
    {[kind |-> "response", status |-> code] : code \in Statuses}
    \cup {[kind |-> k, status |-> 0] : k \in {"Timeout", "SSLError", "RequestException"}}

\* requests refuses a URL it has no connection adapter for, before sending.
Sendable(url) ==
    LET parsed == urlparse(url)
    IN  Truthy(url) /\ parsed.scheme \in {"http", "https"} /\ parsed.netloc # <<>>

Outcome(url, transport) ==
    IF Sendable(url) THEN transport ELSE [kind |-> "RequestException", status |-> 0]

\* Every 2xx status the server answers with.
AnySuccessStatus == {200, 201, 202, 203, 204}

\* The status codes of a successful unsubscribe.
SuccessStatuses == {200, 201, 202, 204}

\* _apply_rate_limit: the seconds slept and the clock after it.
apply_rate_limit(t_now, t_last) ==
    LET time_since_last == t_now - t_last
        slept == IF time_since_last < min_request_interval
                 THEN min_request_interval - time_since_last ELSE 0
    IN  [slept |-> slept, now |-> t_now + slept, last_request_time |-> t_now + slept]

\* The result of one request: shared by _unsubscribe_one_click and
\* _unsubscribe_http_get, which differ in the verb, the header and the texts.
RequestResult(method_used, via, outcome) ==
    IF outcome.kind = "response"
    THEN IF outcome.status \in SuccessStatuses
         THEN [success |-> TRUE, method_used |-> method_used,
               action_taken |-> <<"automated-unsubscribe">>,
               message |-> <<"Successfully unsubscribed via ", via, " (status: ",
                             StatusText(outcome.status), ")">>]
         ELSE [success |-> FALSE, method_used |-> method_used,
               action_taken |-> <<"failed">>,
               message |-> <<"Unsubscribe failed with status code: ",
                             StatusText(outcome.status)>>]
    ELSE [success |-> FALSE, method_used |-> method_used,
          action_taken |-> <<"failed">>,
          message |-> CASE outcome.kind = "Timeout" -> <<"Request timeout">>
                        [] outcome.kind = "SSLError" ->
                               <<"SSL certificate verification failed">>
                        [] OTHER -> <<"Request failed: ", outcome.kind>>]

\* A one-click unsubscribe that posts a second time when the first failed.
unsubscribe_one_click_retrying(url, transport, t_now, t_last) ==
    LET limit == apply_rate_limit(t_now, t_last)
        post == [verb |-> "POST", url |-> url, one_click |-> TRUE,
                 allow_redirects |-> TRUE, verify |-> TRUE]
        outcome == Outcome(url, transport)
        failed == outcome.kind # "response" \/ outcome.status \notin SuccessStatuses
    IN  [result |-> RequestResult("one-click", "one-click", outcome),
         requests |-> IF failed THEN <<post, post>> ELSE <<post>>,
         answer |-> outcome,
         slept |-> limit.slept, now |-> limit.now,
         last_request_time |-> limit.last_request_time]

\* _unsubscribe_one_click
unsubscribe_one_click(url, transport, t_now, t_last) ==
    LET limit == apply_rate_limit(t_now, t_last)
    IN  [result |-> RequestResult("one-click", "one-click", Outcome(url, transport)),
         requests |-> <<[verb |-> "POST", url |-> url, one_click |-> TRUE,
                         allow_redirects |-> TRUE, verify |-> TRUE]>>,
         answer |-> Outcome(url, transport),
         slept |-> limit.slept, now |-> limit.now,
         last_request_time |-> limit.last_request_time]

\* An HTTP GET that does not pass through the gate of the POST requests.
unsubscribe_http_get_ungated(url, transport, t_now, t_last) ==
    [result |-> RequestResult("http", "HTTP GET", Outcome(url, transport)),
     requests |-> <<[verb |-> "GET", url |-> url, one_click |-> FALSE,
                     allow_redirects |-> TRUE, verify |-> TRUE]>>,
     answer |-> Outcome(url, transport),
     slept |-> 0, now |-> t_now, last_request_time |-> t_last]

\* _unsubscribe_http_get
unsubscribe_http_get(url, transport, t_now, t_last) ==
    LET limit == apply_rate_limit(t_now, t_last)
    IN  [result |-> RequestResult("http", "HTTP GET", Outcome(url, transport)),
         requests |-> <<[verb |-> "GET", url |-> url, one_click |-> FALSE,
                         allow_redirects |-> TRUE, verify |-> TRUE]>>,
         answer |-> Outcome(url, transport),
         slept |-> limit.slept, now |-> limit.now,
         last_request_time |-> limit.last_request_time]

\* No request, no answer.
NoAnswer == [kind |-> "none", status |-> 0]

\* A return without a request that stamps the time of the call all the same.
NoRequestStamping(result, t_now, t_last) ==
    [result |-> result, requests |-> <<>>, answer |-> NoAnswer, slept |-> 0,
     now |-> t_now, last_request_time |-> t_now]

\* A return of unsubscribe() that made no request.
NoRequest(result, t_now, t_last) ==
    [result |-> result, requests |-> <<>>, answer |-> NoAnswer, slept |-> 0,
     now |-> t_now, last_request_time |-> t_last]

\* An except clause that lets the exception out of unsubscribe().
ExceptClauseReraising(result, error, t_now, t_last) ==
    NoRequest([raised |-> error], t_now, t_last)

\* except Exception as e: the result with message 'Error during unsubscribe: '
\* and str(e).
ExceptClause(result, error, t_now, t_last) ==
    NoRequest([result EXCEPT !.message = <<"Error during unsubscribe: ", error>>],
              t_now, t_last)

\* A dispatch that fetches the page of a web unsubscribe itself.
DispatchWebAsHttp(info, method, url, result, transport, t_now, t_last) ==
    IF method = "web" THEN unsubscribe_http_get(url, transport, t_now, t_last)
    ELSE IF method = "one-click" /\ info.url # MissingUrl
         THEN unsubscribe_one_click(info.url, transport, t_now, t_last)
    ELSE IF method = "http" THEN unsubscribe_http_get(url, transport, t_now, t_last)
    ELSE NoRequest([result EXCEPT !.action_taken = <<"manual-required">>,
                                  !.message = <<"Manual action required: Send email to ">>
                                              \o FormatUrl(url)],
                   t_now, t_last)

\* The try block of unsubscribe(): one branch for each method.
Dispatch(info, method, url, result, transport, t_now, t_last) ==
    CASE method = "one-click" ->
            IF info.url = MissingUrl
            THEN ExceptClause(result, "'url'", t_now, t_last)
            ELSE unsubscribe_one_click(info.url, transport, t_now, t_last)
      [] method = "http" -> unsubscribe_http_get(url, transport, t_now, t_last)
      [] method = "mailto" ->
            NoRequest([result EXCEPT !.action_taken = <<"manual-required">>,
                                     !.message = <<"Manual action required: Send email to ">>
                                                 \o FormatUrl(url)],
                      t_now, t_last)
      [] method = "web" ->
            NoRequest([result EXCEPT !.action_taken = <<"manual-required">>,
                                     !.message = <<"Manual action required: Visit ">>
                                                 \o FormatUrl(url)],
                      t_now, t_last)
      [] OTHER ->
            NoRequest([result EXCEPT !.message = <<"Unsupported unsubscribe method: ",
                                                   FormatMethod(method)>>],
                      t_now, t_last)

\* A handler that does not look at has_unsubscribe.
unsubscribe_whatever_has_unsubscribe(info, dry_run, transport, t_now, t_last) ==
    LET result == [success |-> FALSE, method_used |-> info.method,
                   action_taken |-> <<"none">>, message |-> <<>>]
        url == GetUrl(info)
        method == info.method
    IN  IF Truthy(url) /\ ~is_safe_url(url)
        THEN NoRequest([result EXCEPT
                            !.message = <<"URL failed safety validation (possible phishing)">>],
                       t_now, t_last)
        ELSE IF dry_run
        THEN NoRequest([result EXCEPT
                            !.success = TRUE,
                            !.action_taken = <<"dry-run: would unsubscribe via ",
                                               FormatMethod(method)>>,
                            !.message = <<"DRY RUN: Would unsubscribe using ",
                                          FormatMethod(method), " method to ">>
                                        \o FormatUrl(url)],
                       t_now, t_last)
        ELSE Dispatch(info, method, url, result, transport, t_now, t_last)

\* A handler that looks at dry_run before anything else.
unsubscribe_dry_run_first(info, dry_run, transport, t_now, t_last) ==
    LET result == [success |-> FALSE, method_used |-> info.method,
                   action_taken |-> <<"none">>, message |-> <<>>]
        url == GetUrl(info)
        method == info.method
    IN  IF dry_run
        THEN NoRequest([result EXCEPT
                            !.success = TRUE,
                            !.action_taken = <<"dry-run: would unsubscribe via ",
                                               FormatMethod(method)>>,
                            !.message = <<"DRY RUN: Would unsubscribe using ",
                                          FormatMethod(method), " method to ">>
                                        \o FormatUrl(url)],
                       t_now, t_last)
        ELSE IF ~info.has_unsubscribe
        THEN NoRequest([result EXCEPT !.message = <<"No unsubscribe method found">>],
                       t_now, t_last)
        ELSE IF Truthy(url) /\ ~is_safe_url(url)
        THEN NoRequest([result EXCEPT
                            !.message = <<"URL failed safety validation (possible phishing)">>],
                       t_now, t_last)
        ELSE Dispatch(info, method, url, result, transport, t_now, t_last)

\* unsubscribe(unsubscribe_info, email_id, dry_run)
unsubscribe(info, dry_run, transport, t_now, t_last) ==
    LET result == [success |-> FALSE, method_used |-> info.method,
                   action_taken |-> <<"none">>, message |-> <<>>]
        url == GetUrl(info)
        method == info.method
    IN  IF ~info.has_unsubscribe
        THEN NoRequest([result EXCEPT !.message = <<"No unsubscribe method found">>],
                       t_now, t_last)
        ELSE IF Truthy(url) /\ ~is_safe_url(url)
        THEN NoRequest([result EXCEPT
                            !.message = <<"URL failed safety validation (possible phishing)">>,
                            !.success = FALSE, !.action_taken = <<"none">>],
                       t_now, t_last)
        ELSE IF dry_run
        THEN NoRequest([result EXCEPT
                            !.success = TRUE,
                            !.action_taken = <<"dry-run: would unsubscribe via ",
                                               FormatMethod(method)>>,
                            !.message = <<"DRY RUN: Would unsubscribe using ",
                                          FormatMethod(method), " method to ">>
                                        \o FormatUrl(url)],
                       t_now, t_last)
        ELSE Dispatch(info, method, url, result, transport, t_now, t_last)

\* The clock never passes MaxClock.
MaxClock == 4

\* What a call of the handler leaves alone: the triage run and the labels.
outside_handler ==
    <<emails, RATE_LIMIT_DELAY, msg_labels, counters, retry_state, history, idx,
      skipped_rate_limit, summary, sleeps, last, resume, all_labels,
      category_label_ids, pc, label_calls, calls>>

\* The handler is used on its own: no triage run, no label call.
UnsubscribeInit ==
    /\ NoRun
    /\ all_labels = SystemLabels
    /\ category_label_ids = {}
    /\ pc = "handler"
    /\ label_calls = <<>>
    /\ HandlerInit

\* The network's answers to a call: the requests that are sent are answered
\* in every way, a call that sends none has nothing to be answered.
AnswersTo(info, dry_run) ==
    LET silent == [kind |-> "RequestException", status |-> 0]
        requests == unsubscribe(info, dry_run, silent, 0, 0).requests
    IN  IF \E i \in 1..Len(requests) : Sendable(requests[i].url)
        THEN Transports ELSE {silent}

\* One call of unsubscribe(); the transport is the network's answer.
Unsubscribe ==
    /\ pc = "handler"
    /\ \E info \in Infos, dry_run \in BOOLEAN :
          \E transport \in AnswersTo(info, dry_run) :
              LET call == unsubscribe(info, dry_run, transport, now, last_request_time)
              IN  /\ call.now <= MaxClock
                  /\ unsub' = [made |-> TRUE, info |-> info, dry_run |-> dry_run,
                               result |-> call.result, requests |-> call.requests,
                               answer |-> call.answer, slept |-> call.slept]
                  /\ now' = call.now
                  /\ last_request_time' = call.last_request_time
    /\ UNCHANGED outside_handler

\* Time passes between two calls.
Tick ==
    /\ pc = "handler"
    /\ now < MaxClock
    /\ now' = now + 1
    /\ UNCHANGED <<outside_handler, last_request_time, unsub>>

HandlerNext ==
    \/ Unsubscribe
    \/ Tick

HandlerSpec == UnsubscribeInit /\ [][HandlerNext]_vars

\* ------------------------------------------------ URL safety validator

\* The largest and the smallest member of a non-empty set of numbers.
MaxOf(S) == CHOOSE i \in S : \A j \in S : j <= i

MinOf(S) == CHOOSE i \in S : \A j \in S : i <= j

\* The parts the URLs under validation are made of.
UrlSchemes == {<<"http", "://">>, <<"https", "://">>, <<"HTTP", "://">>,
               <<"ftp", "://">>, <<>>}

UrlUserinfos == {<<>>, <<"user", "@">>, <<"bit", ".", "ly", "@">>}

UrlHosts ==
    {<<"example", ".", "com">>,
     <<"192", ".", "168", ".", "1", ".", "1">>,
     <<"foo", ".", "tk">>, <<"FOO", ".", "TK">>, <<"foo", ".", "ml">>,
     <<"bit", ".", "ly">>, <<"Bit", ".", "LY">>,
     <<"tinyurl", ".", "com">>, <<"goo", ".", "gl">>,
     <<"bit", ".", "lyft", ".", "com">>,
     <<>>}

UrlPorts == {<<>>, <<":", "8080">>}

UrlPaths == {<<>>, <<"/unsubscribe">>, <<"?id=123">>}

\* The URLs _is_safe_url is called with.
ValidatedUrls ==
    {scheme \o userinfo \o host \o port \o path :
        scheme \in UrlSchemes, userinfo \in UrlUserinfos, host \in UrlHosts,
        port \in UrlPorts, path \in UrlPaths}
    \cup {NoUrl,
          <<"mailto", ":", "u", "@", "example", ".", "com">>,
          <<"mailto", ":", "u", "@", "foo", ".", "tk">>,
          <<"MAILTO", ":", "u", "@", "example", ".", "com">>}

\* What a call of a function without state leaves alone, but for the calls.
no_run_but_calls ==
    <<emails, RATE_LIMIT_DELAY, msg_labels, counters, retry_state, history, idx,
      skipped_rate_limit, summary, sleeps, last, resume, handler>>

\* The validator is used on its own.
ValidatorInit ==
    /\ NoRun
    /\ all_labels = SystemLabels
    /\ category_label_ids = {}
    /\ pc = "validator"
    /\ label_calls = <<>>
    /\ HandlerInit

\* One call of _is_safe_url().
Validate ==
    /\ pc = "validator"
    /\ \E url \in ValidatedUrls :
          checked' = [made |-> TRUE, url |-> url, safe |-> is_safe_url(url)]
    /\ UNCHANGED <<no_run_but_calls, all_labels, category_label_ids, pc, label_calls,
                   extracted, gated>>

ValidatorNext == Validate

ValidatorSpec == ValidatorInit /\ [][ValidatorNext]_vars

\* ------------------------------------------------ unsubscribe extractor

\* The longest List-Unsubscribe value, in entries, and the longest body, in
\* words.
MaxUris == 2

MaxWords == 2

\* list_unsubscribe_post is None.
NoPost == "<None>"

\* The header is not in the dictionary.
Absent == "<absent>"

\* The URIs a List-Unsubscribe value is made of.
HeaderUris ==
    {<<"https", "://", "example", ".", "com", "/unsubscribe">>,
     <<"http", "://", "example", ".", "com", "/opt-out">>,
     <<"mailto", ":", "u", "@", "example", ".", "com">>,
     <<"HTTPS", "://", "example", ".", "com", "/unsubscribe">>,
     <<"httpbin", ".", "org", "/unsubscribe">>}

\* An entry of a List-Unsubscribe value: a URI between < and >, or text that
\* is not between them.
HeaderEntries ==
    {[bracketed |-> TRUE, uri |-> uri] : uri \in HeaderUris}
    \cup {[bracketed |-> FALSE, uri |-> <<"https", "://", "example", ".", "com", "/unsubscribe">>]}

\* The sequences of at most n members of S.
SeqsUpTo(S, n) == UNION {[1..k -> S] : k \in 0..n}

ListUnsubscribeValues == SeqsUpTo(HeaderEntries, MaxUris)

ListUnsubscribePostValues == {"List-Unsubscribe=One-Click", "list-unsubscribe=one-click"}

\* The header sets: each of the two headers is absent, or present under the
\* canonical or another capitalisation of its name.
HeaderSets ==
    {h \in [lu : [name : {"List-Unsubscribe", "list-unsubscribe", Absent},
                  value : ListUnsubscribeValues],
            post : [name : {"List-Unsubscribe-Post", "list-unsubscribe-post", Absent},
                    value : ListUnsubscribePostValues \cup {""}]] :
        /\ h.lu.name = Absent => h.lu.value = <<>>
        /\ h.post.name = Absent <=> h.post.value = ""}

\* headers.get('List-Unsubscribe', '')
GetListUnsubscribe(headers) ==
    IF headers.lu.name = "List-Unsubscribe" THEN headers.lu.value ELSE <<>>

\* headers.get('List-Unsubscribe-Post', '')
GetListUnsubscribePost(headers) ==
    IF headers.post.name = "List-Unsubscribe-Post" THEN headers.post.value ELSE ""

\* A lookup that ignores the case of the header names.
GetListUnsubscribeAnyCase(headers) ==
    IF Lower(headers.lu.name) = "list-unsubscribe" THEN headers.lu.value ELSE <<>>

GetListUnsubscribePostAnyCase(headers) ==
    IF Lower(headers.post.name) = "list-unsubscribe-post" THEN headers.post.value ELSE ""

\* re.findall(r'<([^>]+)>', list_unsubscribe)
RECURSIVE FindBracketed(_)
FindBracketed(value) ==
    IF value = <<>> THEN <<>>
    ELSE (IF Head(value).bracketed /\ Head(value).uri # <<>>
          THEN <<Head(value).uri>> ELSE <<>>)
         \o FindBracketed(Tail(value))

\* url.startswith('http')
StartsWithHttp(url) ==
    Len(url) >= 1 /\ url[1] \in {"http", "https", "httpbin"}

\* 'List-Unsubscribe=One-Click' in list_unsubscribe_post
ContainsOneClick(post) == post \in {"List-Unsubscribe=One-Click"}

\* The first member of the sequence that satisfies the test, or NoUrl.
FirstHttp(urls) ==
    LET hits == {i \in 1..Len(urls) : StartsWithHttp(urls[i])}
    IN  IF hits = {} THEN NoUrl ELSE urls[MinOf(hits)]

FirstMailto(urls) ==
    LET hits == {i \in 1..Len(urls) : StartsWithMailto(urls[i])}
    IN  IF hits = {} THEN NoUrl ELSE urls[MinOf(hits)]

\* A word of the body: what stands between two blanks. A URL in it runs to
\* the end of the word, the punctuation after it included.
BodyWords ==
    {[url |-> <<"https", "://", "example", ".", "com", "/unsubscribe", "?id=123">>,
      after |-> <<>>],
     [url |-> <<"http", "://", "example", ".", "com", "/Opt-Out">>,
      after |-> <<")", ".">>],
     [url |-> <<"https", "://", "example", ".", "com", "/stop_receiving">>,
      after |-> <<",">>],
     [url |-> <<"https", "://", "example", ".", "com", "/manage-preferences">>,
      after |-> <<";">>],
     [url |-> <<"HTTPS", "://", "EXAMPLE", ".", "COM", "/email_preferences">>,
      after |-> <<":">>],
     [url |-> <<"https", "://", "example", ".", "com", "/about">>,
      after |-> <<".">>],
     [url |-> <<"unsubscribe">>, after |-> <<>>]}

Bodies == SeqsUpTo(BodyWords, MaxWords)

\* UNSUBSCRIBE_PATTERNS, in order: the pieces each of them finds its words in.
UNSUBSCRIBE_PATTERNS ==
    <<{"/unsubscribe"},
      {"/opt-out", "/opt_out", "/optout"},
      {"/stop-receiving", "/stop_receiving", "/stopreceiving"},
      {"/manage-preferences", "/manage_preferences", "/managepreferences"},
      {"/email-preferences", "/email_preferences", "/emailpreferences"}>>

\* Whether the pattern matches in the word: after http:// or https://, in any
\* case, comes at least one character and then the pattern's text.
Matches(pattern, word) ==
    /\ Len(word.url) >= 3
    /\ Lower(word.url[1]) \in {"http", "https"}
    /\ word.url[2] = "://"
    /\ \E i \in 3..Len(word.url) : Lower(word.url[i]) \in pattern

\* re.findall(pattern, email_body, re.IGNORECASE)
RECURSIVE FindAll(_, _)
FindAll(pattern, email_body) ==
    IF email_body = <<>> THEN <<>>
    ELSE (IF Matches(pattern, Head(email_body))
          THEN <<Head(email_body).url \o Head(email_body).after>> ELSE <<>>)
         \o FindAll(pattern, Tail(email_body))

RStripChars == {".", ",", ";", ":", ")"}

\* text.rstrip('.,;:)')
RECURSIVE RStrip(_)
RStrip(text) ==
    IF text # <<>> /\ text[Len(text)] \in RStripChars
    THEN RStrip(SubSeq(text, 1, Len(text) - 1))
    ELSE text

\* A scan that takes the match that comes first in the body, whatever its
\* pattern.
find_unsubscribe_in_body_earliest(email_body) ==
    LET hits == {i \in 1..Len(email_body) :
                    \E k \in 1..Len(UNSUBSCRIBE_PATTERNS) :
                        Matches(UNSUBSCRIBE_PATTERNS[k], email_body[i])}
    IN  IF hits = {} THEN NoUrl
        ELSE RStrip(email_body[MinOf(hits)].url \o email_body[MinOf(hits)].after)

\* _find_unsubscribe_in_body: the URL, or NoUrl for None.
find_unsubscribe_in_body(email_body) ==
    LET hits == {k \in 1..Len(UNSUBSCRIBE_PATTERNS) :
                    FindAll(UNSUBSCRIBE_PATTERNS[k], email_body) # <<>>}
    IN  IF hits = {} THEN NoUrl
        ELSE RStrip(FindAll(UNSUBSCRIBE_PATTERNS[MinOf(hits)], email_body)[1])

\* An extraction that carries the post header along with every header URI.
ExtractFromCarryingPost(email_message, list_unsubscribe, list_unsubscribe_post) ==
    LET result == [has_unsubscribe |-> FALSE, method |-> NoMethod, url |-> NoUrl,
                   list_unsubscribe_post |->
                       IF list_unsubscribe_post = "" THEN NoPost
                       ELSE list_unsubscribe_post]
        urls == FindBracketed(list_unsubscribe)
        unsubscribe_url == find_unsubscribe_in_body(email_message)
    IN  IF /\ list_unsubscribe # <<>>
           /\ ContainsOneClick(list_unsubscribe_post)
           /\ FirstHttp(urls) # NoUrl
        THEN [result EXCEPT !.has_unsubscribe = TRUE, !.method = "one-click",
                            !.url = FirstHttp(urls)]
        ELSE IF list_unsubscribe # <<>> /\ FirstHttp(urls) # NoUrl
        THEN [result EXCEPT !.has_unsubscribe = TRUE, !.method = "http",
                            !.url = FirstHttp(urls)]
        ELSE IF list_unsubscribe # <<>> /\ FirstMailto(urls) # NoUrl
        THEN [result EXCEPT !.has_unsubscribe = TRUE, !.method = "mailto",
                            !.url = FirstMailto(urls)]
        ELSE IF Truthy(unsubscribe_url)
        THEN [result EXCEPT !.has_unsubscribe = TRUE, !.method = "web",
                            !.url = unsubscribe_url]
        ELSE [result EXCEPT !.list_unsubscribe_post = NoPost]

\* The extraction, given the values of the two headers.
ExtractFrom(email_message, list_unsubscribe, list_unsubscribe_post) ==
    LET result == [has_unsubscribe |-> FALSE, method |-> NoMethod, url |-> NoUrl,
                   list_unsubscribe_post |-> NoPost]
        urls == FindBracketed(list_unsubscribe)
        unsubscribe_url == find_unsubscribe_in_body(email_message)
    IN  IF /\ list_unsubscribe # <<>>
           /\ list_unsubscribe_post # ""
           /\ ContainsOneClick(list_unsubscribe_post)
           /\ FirstHttp(urls) # NoUrl
        THEN [has_unsubscribe |-> TRUE, method |-> "one-click",
              url |-> FirstHttp(urls),
              list_unsubscribe_post |-> list_unsubscribe_post]
        ELSE IF list_unsubscribe # <<>> /\ FirstHttp(urls) # NoUrl
        THEN [result EXCEPT !.has_unsubscribe = TRUE, !.method = "http",
                            !.url = FirstHttp(urls)]
        ELSE IF list_unsubscribe # <<>> /\ FirstMailto(urls) # NoUrl
        THEN [result EXCEPT !.has_unsubscribe = TRUE, !.method = "mailto",
                            !.url = FirstMailto(urls)]
        ELSE IF Truthy(unsubscribe_url)
        THEN [result EXCEPT !.has_unsubscribe = TRUE, !.method = "web",
                            !.url = unsubscribe_url]
        ELSE result

\* An extraction that looks the headers up whatever the case of their names.
extract_unsubscribe_info_any_case(email_message, headers) ==
    ExtractFrom(email_message, GetListUnsubscribeAnyCase(headers),
                GetListUnsubscribePostAnyCase(headers))

\* extract_unsubscribe_info(email_message, headers)
extract_unsubscribe_info(email_message, headers) ==
    ExtractFrom(email_message, GetListUnsubscribe(headers),
                GetListUnsubscribePost(headers))

\* The extractor is used on its own, on one message.
ExtractorInit ==
    /\ NoRun
    /\ all_labels = SystemLabels
    /\ category_label_ids = {}
    /\ pc = "extractor"
    /\ label_calls = <<>>
    /\ now = min_request_interval
    /\ last_request_time = 0
    /\ unsub = NoCall
    /\ checked = NoCall
    /\ gated = NoCall
    /\ \E email_message \in Bodies, headers \in HeaderSets :
          extracted = [made |-> FALSE, email_message |-> email_message,
                       headers |-> headers]

\* The call of extract_unsubscribe_info() on the message.
Extract ==
    /\ pc = "extractor"
    /\ ~extracted.made
    /\ extracted' = [made |-> TRUE, email_message |-> extracted.email_message,
                     headers |-> extracted.headers,
                     result |-> extract_unsubscribe_info(extracted.email_message,
                                                         extracted.headers)]
    /\ UNCHANGED <<no_run_but_calls, all_labels, category_label_ids, pc, label_calls,
                   checked, gated>>

ExtractorNext == Extract

ExtractorSpec == ExtractorInit /\ [][ExtractorNext]_vars

\* --------------------------------------------------- should_unsubscribe

\* The handler was made without a configuration.
NoConfig == [present |-> FALSE]

SenderPatterns == {"noreply@", "NOREPLY@", "@example.com", ""}

\* The configurations a handler is made with: none, or one that has the
\* unsubscribe settings.
Configs ==
    {NoConfig}
    \cup [present : {TRUE},
          AUTO_UNSUBSCRIBE_ENABLED : BOOLEAN,
          UNSUBSCRIBE_CATEGORIES : SUBSET {"Promotions", "Spam"},
          UNSUBSCRIBE_SENDER_PATTERNS : SUBSET SenderPatterns]

GateCategories == {"Promotions", "promotions", "Spam"}

Senders == {"noreply@example.com", "NoReply@Example.com", "alice@example.com",
            "newsletter@shop.org"}

MessageTexts == {"Test email", "Click https://example.com/unsubscribe"}

\* pattern in sender, for the patterns and senders of the model as written.
IsIn(pattern, sender) ==
    \/ pattern = ""
    \/ <<pattern, sender>> \in {<<"noreply@", "noreply@example.com">>,
                                <<"@example.com", "noreply@example.com">>,
                                <<"@example.com", "alice@example.com">>}

\* A gate that compares pattern and sender as they are written.
should_unsubscribe_matching_case(config, email_message, category, sender) ==
    IF ~config.present THEN FALSE
    ELSE IF ~config.AUTO_UNSUBSCRIBE_ENABLED THEN FALSE
    ELSE IF category \notin config.UNSUBSCRIBE_CATEGORIES THEN FALSE
    ELSE \E pattern \in config.UNSUBSCRIBE_SENDER_PATTERNS : IsIn(pattern, sender)

\* should_unsubscribe(email_message, category, sender) of a handler made
\* with config.
should_unsubscribe(config, email_message, category, sender) ==
    IF ~config.present THEN FALSE
    ELSE IF ~config.AUTO_UNSUBSCRIBE_ENABLED THEN FALSE
    ELSE IF category \notin config.UNSUBSCRIBE_CATEGORIES THEN FALSE
    ELSE LET sender_lower == Lower(sender)
         IN  \E pattern \in config.UNSUBSCRIBE_SENDER_PATTERNS :
                 IsIn(Lower(pattern), sender_lower)

\* The gate is used on its own, on one message.
GateInit ==
    /\ NoRun
    /\ all_labels = SystemLabels
    /\ category_label_ids = {}
    /\ pc = "gate"
    /\ label_calls = <<>>
    /\ now = min_request_interval
    /\ last_request_time = 0
    /\ unsub = NoCall
    /\ checked = NoCall
    /\ extracted = NoCall
    /\ \E config \in Configs, email_message \in MessageTexts,
          category \in GateCategories, sender \in Senders :
          gated = [made |-> FALSE, config |-> config, email_message |-> email_message,
                   category |-> category, sender |-> sender]

\* The call of should_unsubscribe() on the message.
ShouldUnsubscribe ==
    /\ pc = "gate"
    /\ ~gated.made
    /\ gated' = [gated EXCEPT !.made = TRUE] @@
                 [answer |-> should_unsubscribe(gated.config, gated.email_message,
                                               gated.category, gated.sender)]
    /\ UNCHANGED <<no_run_but_calls, all_labels, category_label_ids, pc, label_calls,
                   checked, extracted>>

GateNext == ShouldUnsubscribe

GateSpec == GateInit /\ [][GateNext]_vars

\* ------------------------------------------------------------ properties

Range(q) == {q[i] : i \in 1..Len(q)}

\* The attempts made on message m, and those of them a rate limit error ended.
Attempts(m) == Len(results[m])

Throttled(m) == Cardinality({i \in 1..Len(results[m]) : results[m][i] = "throttled"})

\* How the latest attempt on message m ended ("none" before the first).
FinalResult(m) == IF results[m] = <<>> THEN "none" ELSE results[m][Len(results[m])]

\* C1: in every idempotency check (main pass or retry round), a message whose
\* label ids intersect category_label_ids is skipped: the attempt does not
\* invoke the classifier, issues no mailbox mutation and changes nothing in
\* the mailbox, and the message is counted as skipped-already-labeled and not
\* as processed, kept or trashed.
C1_AlreadyLabeledIsSkipped ==
    [][\A m \in MsgIds :
          (/\ last'.phase # "none"
           /\ last'.msg = m
           /\ last'.checked
           /\ msg_labels[m] \cap category_label_ids # {})
          => /\ last'.outcome = "skipped"
             /\ ~last'.called
             /\ \A i \in 1..Len(last'.issued) :
                    last'.issued[i] \notin MutationCalls \cup {"categorize_email"}
             /\ msg_labels' = msg_labels
             /\ all_labels' = all_labels
             /\ classifiedOk' = classifiedOk
             /\ skipped_already_labeled' = skipped_already_labeled + 1
             /\ processed_count' = processed_count
             /\ kept_count' = kept_count
             /\ trashed_count' = trashed_count
             /\ category_counts' = category_counts]_vars

\* A message queued for retry is found labeled in a retry round and skipped.
C1_Witness ==
    /\ last.phase = "retry"
    /\ last.outcome = "skipped"
    /\ msg_labels[last.msg] \cap category_label_ids # {}
    /\ skipped_already_labeled = 2

\* C2: a classified message is kept (summary and action items, the category's
\* label applied, then archived) if and only if its category is an exact,
\* case-sensitive member of the keep set; every other category is trashed.
C2_KeepIffExactMember ==
    (last.phase # "none" /\ last.classified) =>
        LET keep == last.category \in CATEGORIES_TO_KEEP
            issued == Range(last.issued)
            m == last.msg
        IN  /\ Len(last.issued) > Len(PreCalls)
            /\ keep => /\ last.issued[Len(PreCalls) + 1] = "summarize_email"
                       /\ "trash_email" \notin issued
            /\ ~keep => /\ last.issued[Len(PreCalls) + 1] = "trash_email"
                        /\ issued \cap Range(KeepCalls) = {}
            /\ last.error = "none" =>
                 /\ last.outcome = (IF keep THEN "kept" ELSE "trashed")
                 /\ keep => /\ last.issued = PreCalls \o KeepCalls
                            /\ "INBOX" \notin msg_labels[m]
                            /\ "TRASH" \notin msg_labels[m]
                            /\ \E l \in all_labels :
                                 /\ Lower(l.name) = Lower(last.category)
                                 /\ l.id \in msg_labels[m]
                 /\ ~keep => /\ last.issued = PreCalls \o TrashCalls
                             /\ "TRASH" \in msg_labels[m]
                             /\ msg_labels[m] \cap category_label_ids = {}

\* A category that differs from a keep category only in letter case is trashed.
C2_Witness ==
    /\ last.classified
    /\ last.category = "notes"
    /\ last.outcome = "trashed"
    /\ "TRASH" \in msg_labels[last.msg]

\* C3: within one run the classifier returns a category for each message at
\* most once.
C3_ClassifiedAtMostOnce == \A m \in MsgIds : classifiedOk[m] <= 1

\* The texts that signal rate limiting: 'rate_limit_exceeded' (in any letter
\* case) or '429' is in them.
C4_SignalsRateLimit(text) == text \in {"RATE_LIMIT_EXCEEDED", "HttpError 429"}

\* C4: a main-pass failure that signals rate limiting appends the message to
\* the retry queue; after any other failure the message is never in the retry
\* queue and is not attempted again in the run. In both cases the main pass
\* goes on with the next message.
C4_OnlyRateLimitFailuresAreQueued ==
    /\ (last.phase = "main" /\ last.error # "none") =>
          /\ C4_SignalsRateLimit(last.error) <=>
               (/\ rate_limited_emails # <<>>
                /\ rate_limited_emails[Len(rate_limited_emails)] = last.msg)
          /\ ~C4_SignalsRateLimit(last.error) => last.msg \notin Range(rate_limited_emails)
          /\ pc = "main"
          /\ idx >= 2
          /\ emails[idx - 1] = last.msg
    /\ \A m \in MsgIds :
          (results[m] # <<>> /\ results[m][1] = "error") =>
              /\ Attempts(m) = 1
              /\ m \notin Range(rate_limited_emails) \cup Range(remaining_emails)

\* The first message failed for another reason and was left alone, the second
\* was throttled and retried, and the run came to its end.
C4_Witness ==
    /\ pc = "done"
    /\ Len(emails) = 2
    /\ results[1] = <<"error">>
    /\ Attempts(2) >= 2
    /\ results[2][1] = "throttled"

\* C5: retry round k begins with a wait of 3 * RATE_LIMIT_DELAY * 2^(k-1).
C5_RetryDelays ==
    /\ \A k \in 1..Len(sleeps) : sleeps[k] = 3 * RATE_LIMIT_DELAY * 2^(k - 1)
    /\ Len(sleeps) = retry_attempt + (IF pc = "fatal" THEN 1 ELSE 0)

\* Three rounds ran: they waited 3x, 6x and 12x the base delay.
C5_Witness ==
    /\ RATE_LIMIT_DELAY = 2
    /\ sleeps = <<6, 12, 24>>
    /\ pc = "done"

\* What holds of the retry phase in every state of a run.
C6_RetryPhaseInvariant ==
    /\ retry_attempt <= MAX_RETRIES
    /\ Len(sleeps) <= MAX_RETRIES
    /\ \A i, j \in 1..Len(rate_limited_emails) :
          rate_limited_emails[i] = rate_limited_emails[j] => i = j
    /\ pc = "round" =>
          /\ rate_limited_emails # <<>>
          /\ \A i \in 1..Len(rate_limited_emails) :
                Attempts(rate_limited_emails[i]) =
                    (IF i < email_idx THEN retry_attempt + 1 ELSE retry_attempt)
          /\ Range(remaining_emails) =
                {rate_limited_emails[i] : i \in
                    {j \in 1..(email_idx - 1) :
                        FinalResult(rate_limited_emails[j]) = "throttled"}}
    /\ pc = "retry" =>
          \A m \in Range(rate_limited_emails) :
              Attempts(m) = retry_attempt + 1 /\ Throttled(m) = Attempts(m)
    /\ \A m \in MsgIds :
          /\ Attempts(m) <= MAX_RETRIES + 1
          /\ classifiedOk[m] <= Attempts(m)
          /\ \A i \in 1..(Attempts(m) - 1) : results[m][i] = "throttled"
    /\ Cardinality({i \in 1..Len(last.issued) : last.issued[i] = "categorize_email"}) <= 1

\* C6: the retry phase runs at most MAX_RETRIES = 3 rounds, a round runs only
\* on a non-empty queue and attempts each queued message exactly once, only
\* the still-throttled messages are carried to the next round, no message is
\* attempted (so classified) more than 4 times, and the run terminates.
C6_BoundedRetries ==
    /\ []C6_RetryPhaseInvariant
    /\ <>(pc \in {"done", "fatal"})

\* The third round has attempted a message for the fourth time.
C6_Witness ==
    /\ pc = "round"
    /\ retry_attempt = MAX_RETRIES
    /\ email_idx = 2
    /\ Attempts(rate_limited_emails[1]) = MAX_RETRIES + 1

\* C7: the rate-limit-skipped count reported at the end is the number of
\* messages still queued after the last round, which are the messages whose
\* every attempt (main pass and all three rounds) was throttled; they are
\* counted neither as kept, trashed or processed nor as errors.
C7_SkippedRateLimitCount ==
    pc = "done" =>
        LET exhausted == {m \in MsgIds :
                            Attempts(m) = MAX_RETRIES + 1 /\ Throttled(m) = Attempts(m)}
        IN  /\ skipped_rate_limit = Cardinality(exhausted)
            /\ Range(rate_limited_emails) =
                 (IF retry_attempt = MAX_RETRIES THEN exhausted ELSE {})
            /\ exhausted = {m \in MsgIds : FinalResult(m) = "throttled"}
            /\ skipped_rate_limit > 0 =>
                 /\ "Skipped (rate limits)" \in DOMAIN summary
                 /\ summary["Skipped (rate limits)"] = skipped_rate_limit
            /\ kept_count = Cardinality({m \in MsgIds : FinalResult(m) = "kept"})
            /\ trashed_count = Cardinality({m \in MsgIds : FinalResult(m) = "trashed"})
            /\ processed_count =
                 Cardinality({m \in MsgIds : FinalResult(m) \in {"kept", "trashed"}})
            /\ errors_logged = Cardinality({m \in MsgIds : FinalResult(m) = "error"})

\* A message was throttled in the main pass and in all three rounds, and the
\* run reports it as skipped.
C7_Witness ==
    /\ pc = "done"
    /\ skipped_rate_limit = 1
    /\ results[1] = <<"throttled", "throttled", "throttled", "throttled">>
    /\ summary["Skipped (rate limits)"] = 1

\* C8: whatever the outcomes of the calls made for the messages and whatever
\* the configured delay, the run is never aborted.
C8_RunNeverAborted == pc # "fatal"

\* C9: the main pass sleeps RATE_LIMIT_DELAY after a message if and only if
\* the message was classified and its action completed without error, it is
\* not the last of the list, and the delay is positive.
C9_PacingSleep ==
    last.phase = "main" =>
        LET position == idx - 1
            due == /\ last.classified
                   /\ last.error = "none"
                   /\ position < Len(emails)
                   /\ RATE_LIMIT_DELAY > 0
        IN  /\ emails[position] = last.msg
            /\ due => last.slept = RATE_LIMIT_DELAY
            /\ ~due => last.slept = 0

\* The main pass slept after a first message it had classified and trashed.
C9_Witness ==
    /\ last.phase = "main"
    /\ last.outcome = "trashed"
    /\ last.slept = 2
    /\ idx = 2

RECURSIVE SumOver(_, _)
SumOver(f, S) ==
    IF S = {} THEN 0
    ELSE LET x == CHOOSE y \in S : TRUE IN f[x] + SumOver(f, S \ {x})

\* No call has failed so far and no fetched message carried a label.
C11_CleanRun == faults = 0 /\ labeled_at_start = {}

C11_CountsSoFar ==
    C11_CleanRun =>
        /\ kept_count = SumOver(category_counts, Categories \cap CATEGORIES_TO_KEEP)
        /\ trashed_count = SumOver(category_counts, Categories \ CATEGORIES_TO_KEEP)
        /\ kept_count = Cardinality({m \in MsgIds : results[m] = <<"kept">>})
        /\ trashed_count = Cardinality({m \in MsgIds : results[m] = <<"trashed">>})
        /\ pc \in {"summary", "done"} =>
              /\ kept_count + trashed_count = Len(emails)
              /\ skipped_already_labeled = 0
              /\ skipped_rate_limit = 0

C11_CountsOfOneMessage ==
    (C11_CleanRun' /\ last'.phase # "none") =>
        LET c == last'.category
            keep == c \in CATEGORIES_TO_KEEP
        IN  /\ last'.classified
            /\ category_counts' = [category_counts EXCEPT ![c] = @ + 1]
            /\ kept_count' = kept_count + (IF keep THEN 1 ELSE 0)
            /\ trashed_count' = trashed_count + (IF keep THEN 0 ELSE 1)
            /\ keep => /\ "INBOX" \notin msg_labels'[last'.msg]
                       /\ msg_labels'[last'.msg] \ {"INBOX", "TRASH"} # {}
            /\ ~keep => "TRASH" \in msg_labels'[last'.msg]

\* C11: in a run with no failures and no pre-labeled messages, every message
\* adds one to the count of its category and one to kept_count if that
\* category is in the keep set (it is then labeled and archived), otherwise
\* one to trashed_count; so at the end kept_count and trashed_count are the
\* numbers of messages of keep and of other categories.
C11_EndToEndCounts ==
    /\ []C11_CountsSoFar
    /\ [][C11_CountsOfOneMessage]_vars

\* Two messages classified Notes and Spam: one kept, one trashed.
C11_Witness ==
    /\ pc = "done"
    /\ C11_CleanRun
    /\ Len(emails) = 2
    /\ kept_count = 1
    /\ trashed_count = 1
    /\ category_counts["Notes"] = 1
    /\ category_counts["Spam"] = 1

\* The place of a call among the calls an attempt issued (0: not issued).
C12_Place(call) ==
    IF \E i \in 1..Len(last.issued) : last.issued[i] = call
    THEN CHOOSE i \in 1..Len(last.issued) : last.issued[i] = call
    ELSE 0

\* C12: summarize_email and extract_action_items are issued only for a
\* message classified into a keep category, after categorize_email and
\* before create_label_if_not_exists and apply_label; the label is applied
\* before the message is archived; for a message of another category neither
\* call is made and trash_email is the only mailbox mutation issued.
C12_CallOrder ==
    last.phase # "none" =>
        LET classify == C12_Place("categorize_email")
            summarize == C12_Place("summarize_email")
            extract == C12_Place("extract_action_items")
            create == C12_Place("create_label_if_not_exists")
            apply == C12_Place("apply_label")
            archive == C12_Place("archive_email")
            trash == C12_Place("trash_email")
            keep == last.classified /\ last.category \in CATEGORIES_TO_KEEP
            issuedMutations == {last.issued[i] : i \in 1..Len(last.issued)} \cap MutationCalls
        IN  /\ \A c \in {summarize, extract} :
                  c > 0 => /\ keep
                           /\ 0 < classify /\ classify < c
                           /\ create > 0 => c < create
                           /\ apply > 0 => c < apply
            /\ create > 0 => summarize > 0 /\ extract > 0
            /\ apply > 0 => 0 < create /\ create < apply
            /\ archive > 0 => 0 < apply /\ apply < archive
            /\ (last.classified /\ ~keep) =>
                  /\ summarize = 0 /\ extract = 0
                  /\ issuedMutations \subseteq {"trash_email"}
            /\ trash > 0 => last.classified /\ ~keep /\ classify < trash
            /\ last.result = "kept" =>
                  summarize > 0 /\ extract > 0 /\ archive = Len(last.issued)
            /\ last.result = "trashed" => issuedMutations = {"trash_email"}

\* A message was kept: every call of the keep path was issued.
C12_Witness ==
    /\ last.phase = "main"
    /\ last.result = "kept"
    /\ last.issued = PreCalls \o KeepCalls

\* Every fetched message without a label at the start of the run is attempted
\* in the main pass, past the idempotency check; and every user label on a
\* message is a label of a keep category, ignoring letter case.
C13_UnlabeledIsAttempted ==
    /\ \A i \in 1..Len(emails) :
          ((pc # "main" \/ i < idx) /\ emails[i] \notin labeled_at_start) =>
              /\ results[emails[i]] # <<>>
              /\ results[emails[i]][1] # "skipped"
    /\ \A m \in MsgIds : \A id \in msg_labels[m] \ {"INBOX", "TRASH"} :
          \E l \in all_labels :
              /\ l.id = id
              /\ Lower(l.name) \in {Lower(c) : c \in CATEGORIES_TO_KEEP}

\* An attempt on a message that carried a label when the run started asks
\* for its labels and does nothing else.
C13_LabeledIsLeftAlone ==
    (last'.phase # "none" /\ last'.msg \in labeled_at_start) =>
        /\ labeled_at_start' = labeled_at_start
        /\ ~last'.called
        /\ ~last'.classified
        /\ \A i \in 1..Len(last'.issued) : last'.issued[i] = "get_message_labels"
        /\ msg_labels' = msg_labels
        /\ all_labels' = all_labels
        /\ classifiedOk' = classifiedOk

\* C13: a run started after another run has ended at any point works from
\* the mailbox's labels alone: it never classifies or mutates a message that
\* carries a keep-category label the ended run applied (even one the ended
\* run created), and it attempts every fetched message without such a label.
C13_SafeToResume ==
    /\ []C13_UnlabeledIsAttempted
    /\ [][C13_LabeledIsLeftAlone]_vars

\* The second run skips a message that carries a label the first run created
\* and applied before it ended.
C13_Witness ==
    /\ run = 2
    /\ last.phase = "main"
    /\ last.result = "skipped"
    /\ "Label_Notes" \in msg_labels[last.msg]
    /\ UserLabel("notes") \notin all_labels

\* The labels the mailbox had when the run read them.
LabelsAtStart == IF label_calls = <<>> THEN all_labels ELSE label_calls[1].had

\* C14: the label ids of the idempotency check are exactly the ids of the
\* mailbox's labels whose name is a keep category in any letter case, while
\* the keep/trash decision takes a category only in its exact letter case.
C14_CategoryLabelIds ==
    pc = "labels" =>
        /\ category_label_ids =
             {l.id : l \in {x \in LabelsAtStart :
                 x.name \in {"Notes", "notes", "NOTES", "Github", "github", "GITHUB"}}}
        /\ \A c \in LabelNames \cup Categories :
             Decide(c) = "Keep" <=> c \in {"Notes", "Github"}

\* The label NOTES is in the set although the category NOTES is trashed, and
\* the label Work is not in the set.
C14_Witness ==
    /\ pc = "labels"
    /\ "Label_NOTES" \in category_label_ids
    /\ UserLabel("Work") \in LabelsAtStart
    /\ Decide("NOTES") = "Trash"

\* Two names that differ at most in letter case.
C15_SameName(a, b) == Lower(a) = Lower(b)

C15_SystemNames ==
    {"spam", "trash", "inbox", "sent", "draft", "drafts", "important", "starred",
     "unread"}

\* C15: create_label_if_not_exists returns the id of an existing label of the
\* same name ignoring case, or the fixed id of a system name, without
\* creating anything; otherwise it creates one label of the requested name;
\* the mailbox never has two labels of the same name ignoring case and calls
\* with the same name ignoring case return the same id.
C15_CreateLabelIdempotent ==
    /\ \A i \in 1..Len(label_calls) :
          LET c == label_calls[i]
              after == IF i = Len(label_calls) THEN all_labels ELSE label_calls[i + 1].had
              same == {l \in c.had : C15_SameName(l.name, c.name)}
          IN  /\ Lower(c.name) \in C15_SystemNames =>
                    /\ after = c.had
                    /\ c.id \in {"SPAM", "TRASH", "INBOX", "SENT", "DRAFT", "IMPORTANT",
                                 "STARRED", "UNREAD"}
                    /\ Lower(c.id) \in {Lower(c.name), "draft"}
              /\ (Lower(c.name) \notin C15_SystemNames /\ same # {}) =>
                    /\ after = c.had
                    /\ \E l \in same : c.id = l.id
              /\ (Lower(c.name) \notin C15_SystemNames /\ same = {}) =>
                    /\ after = c.had \cup {[id |-> c.id, name |-> c.name]}
                    /\ \A l \in c.had : l.id # c.id
    /\ \A i, j \in 1..Len(label_calls) :
          C15_SameName(label_calls[i].name, label_calls[j].name) =>
              label_calls[i].id = label_calls[j].id
    /\ \A l1, l2 \in all_labels : C15_SameName(l1.name, l2.name) => l1 = l2

\* A label was created, then asked for again in another letter case, and a
\* system name was asked for.
C15_Witness ==
    /\ Len(label_calls) = 3
    /\ label_calls[1].name = "Notes"
    /\ UserLabel("Notes") \notin label_calls[1].had
    /\ label_calls[2].name = "NOTES"
    /\ label_calls[2].id = "Label_Notes"
    /\ label_calls[3].name = "SPAM"
    /\ label_calls[3].id = "SPAM"

\* Whether the text has 'dry-run' in it.
ContainsDryRun(text) ==
    \E i \in 1..Len(text) : text[i] \in {"dry-run: would unsubscribe via "}

\* C16, as stated: a call with dry_run = True issues no network call and
\* always returns success = True with 'dry-run' in action_taken.
C16_DryRunAlwaysSucceeds ==
    (unsub.made /\ unsub.dry_run) =>
        /\ unsub.requests = <<>>
        /\ unsub.result.success
        /\ ContainsDryRun(unsub.result.action_taken)

\* C16, amended: a call with dry_run = True issues no network call and does
\* not wait, whatever the method; it returns success = True with 'dry-run' in
\* action_taken exactly when has_unsubscribe is true and the URL is absent,
\* empty or accepted by the validator, and otherwise success = False with
\* action_taken 'none'.
C16_DryRun ==
    (unsub.made /\ unsub.dry_run) =>
        /\ unsub.requests = <<>>
        /\ unsub.slept = 0
        /\ IF /\ unsub.info.has_unsubscribe
              /\ \/ ~Truthy(GetUrl(unsub.info))
                 \/ is_safe_url(GetUrl(unsub.info))
           THEN /\ unsub.result.success
                /\ ContainsDryRun(unsub.result.action_taken)
           ELSE /\ ~unsub.result.success
                /\ unsub.result.action_taken = <<"none">>

\* A dry run of a one-click unsubscribe to a safe URL has reported success.
C16_Witness ==
    /\ unsub.made
    /\ unsub.dry_run
    /\ unsub.info.has_unsubscribe
    /\ unsub.info.method = "one-click"
    /\ is_safe_url(GetUrl(unsub.info))
    /\ unsub.result.success
    /\ ContainsDryRun(unsub.result.action_taken)
    /\ unsub.requests = <<>>

\* The message of a safety failure.
SafetyFailure == <<"URL failed safety validation (possible phishing)">>

C17_NonEmptyUnsafeUrlRefused ==
    /\ (unsub.made /\ unsub.info.has_unsubscribe
            /\ Truthy(GetUrl(unsub.info)) /\ ~is_safe_url(GetUrl(unsub.info))) =>
           /\ ~unsub.result.success
           /\ unsub.result.message = SafetyFailure
           /\ unsub.requests = <<>>
    /\ unsub.made =>
           \A i \in 1..Len(unsub.requests) :
               Sendable(unsub.requests[i].url) => is_safe_url(unsub.requests[i].url)

\* The request is a POST with the List-Unsubscribe: One-Click header.
IsOneClickPost(request) == request.verb = "POST" /\ request.one_click

\* The request is a GET without that header.
IsPlainGet(request) == request.verb = "GET" /\ ~request.one_click

\* The answer is not a response with one of the success statuses.
FailedAnswer(answer) ==
    answer.kind \in {"Timeout", "SSLError", "RequestException"}
    \/ (answer.kind = "response" /\ answer.status \notin {200, 201, 202, 204})

\* C18, as stated: every call makes exactly one POST with the one-click
\* header when the method is one-click, exactly one GET when it is http and
\* no request otherwise; a failed request gives a failure result.
C18_OneRequestByMethod ==
    unsub.made =>
        /\ Len(unsub.requests) <= 1
        /\ unsub.info.method = "one-click" =>
               (Len(unsub.requests) = 1 /\ IsOneClickPost(unsub.requests[1]))
        /\ unsub.info.method = "http" =>
               (Len(unsub.requests) = 1 /\ IsPlainGet(unsub.requests[1]))
        /\ unsub.info.method \notin {"one-click", "http"} => unsub.requests = <<>>
        /\ FailedAnswer(unsub.answer) => ~unsub.result.success

\* The call goes as far as the branch of its method: it is no dry run, the
\* info has a mechanism and a 'url' entry that the validator accepts.
ReachesDispatch(call) ==
    /\ ~call.dry_run
    /\ call.info.has_unsubscribe
    /\ call.info.url # MissingUrl
    /\ is_safe_url(call.info.url)

\* C18, amended: a call makes at most one request, a POST with the one-click
\* header only for method one-click and a GET without it only for method
\* http; a dry run, an info without mechanism and a rejected URL make none; a
\* call that reaches the branch of its method makes exactly one for one-click
\* and http and none for the other methods; a failed request is not repeated
\* and gives the result success = False, action_taken 'failed'.
C18_AtMostOneRequest ==
    unsub.made =>
        /\ Len(unsub.requests) <= 1
        /\ \A i \in 1..Len(unsub.requests) :
               \/ unsub.info.method = "one-click" /\ IsOneClickPost(unsub.requests[i])
               \/ unsub.info.method = "http" /\ IsPlainGet(unsub.requests[i])
        /\ (\/ unsub.dry_run
            \/ ~unsub.info.has_unsubscribe
            \/ (Truthy(GetUrl(unsub.info)) /\ ~is_safe_url(GetUrl(unsub.info))))
               => unsub.requests = <<>>
        /\ ReachesDispatch(unsub) =>
               (Len(unsub.requests) = 1 <=> unsub.info.method \in {"one-click", "http"})
        /\ (unsub.requests = <<>>) <=> (unsub.answer = NoAnswer)
        /\ FailedAnswer(unsub.answer) =>
               /\ ~unsub.result.success
               /\ unsub.result.action_taken = <<"failed">>

\* A one-click POST has timed out and the call has returned a failure.
C18_Witness ==
    /\ unsub.made
    /\ unsub.info.method = "one-click"
    /\ Len(unsub.requests) = 1
    /\ IsOneClickPost(unsub.requests[1])
    /\ unsub.answer.kind = "Timeout"
    /\ ~unsub.result.success
    /\ unsub.result.action_taken = <<"failed">>

\* Whether the text has the piece in it.
Contains(text, piece) == \E i \in 1..Len(text) : text[i] = piece

\* C19: for method one-click or http, without dry_run and with a URL the
\* validator accepts, the result is success = True with action_taken
\* 'automated-unsubscribe' exactly when the response has status 200, 201, 202
\* or 204; a response with any other status gives success = False,
\* action_taken 'failed' and a message that contains the status code.
C19_SuccessStatuses ==
    (/\ unsub.made
     /\ unsub.info.method \in {"one-click", "http"}
     /\ ~unsub.dry_run
     /\ is_safe_url(GetUrl(unsub.info))) =>
        /\ unsub.result.success <=>
               (unsub.answer.kind = "response" /\ unsub.answer.status \in {200, 201, 202, 204})
        /\ unsub.result.success <=>
               unsub.result.action_taken = <<"automated-unsubscribe">>
        /\ (unsub.answer.kind = "response" /\ unsub.answer.status \notin {200, 201, 202, 204}) =>
               /\ ~unsub.result.success
               /\ unsub.result.action_taken = <<"failed">>
               /\ Contains(unsub.result.message, StatusText(unsub.answer.status))

\* An HTTP GET has been answered 203 and the call has failed, naming 203.
C19_Witness ==
    /\ unsub.made
    /\ unsub.info.method = "http"
    /\ ~unsub.dry_run
    /\ is_safe_url(GetUrl(unsub.info))
    /\ unsub.answer = [kind |-> "response", status |-> 203]
    /\ ~unsub.result.success
    /\ unsub.result.action_taken = <<"failed">>
    /\ Contains(unsub.result.message, "203")

\* Whether the text names the URL: the URL's pieces, in order, are in it.
Names(text, url) ==
    /\ url # <<>>
    /\ \E k \in 1..Len(text) :
          k + Len(url) - 1 <= Len(text) /\ SubSeq(text, k, k + Len(url) - 1) = url

\* C20: for method mailto or web of an info that has a mechanism, without
\* dry_run and with a URL the validator accepts, the call makes no request,
\* does not wait, and returns action_taken 'manual-required' with a message
\* that names the URL.
C20_ManualRequired ==
    (/\ unsub.made
     /\ unsub.info.has_unsubscribe
     /\ unsub.info.method \in {"mailto", "web"}
     /\ ~unsub.dry_run
     /\ is_safe_url(GetUrl(unsub.info))) =>
        /\ unsub.requests = <<>>
        /\ unsub.answer = NoAnswer
        /\ unsub.slept = 0
        /\ unsub.result.action_taken = <<"manual-required">>
        /\ Names(unsub.result.message, GetUrl(unsub.info))

\* A web unsubscribe to an https URL has been left to the user.
C20_Witness ==
    /\ unsub.made
    /\ unsub.info.has_unsubscribe
    /\ unsub.info.method = "web"
    /\ ~unsub.dry_run
    /\ urlparse(GetUrl(unsub.info)).scheme = "https"
    /\ is_safe_url(GetUrl(unsub.info))
    /\ unsub.requests = <<>>
    /\ unsub.result.action_taken = <<"manual-required">>
    /\ Names(unsub.result.message, GetUrl(unsub.info))

\* C21: a manual-action-required outcome (method mailto or web) is reported
\* with the success flag true.
C21_ManualRequiredIsSuccess ==
    (unsub.made /\ unsub.info.method \in {"mailto", "web"}
        /\ unsub.result.action_taken = <<"manual-required">>) =>
        unsub.result.success

\* What the code does: a manual-required result never has the success flag.
C21_ManualRequiredIsReportedFailed ==
    (unsub.made /\ unsub.result.action_taken = <<"manual-required">>) =>
        (~unsub.result.success /\ unsub.info.method \in {"mailto", "web"})

\* C22: a step that makes a request goes through the one gate, whatever the
\* verb: it waits for what is left of min_request_interval since the previous
\* request and no longer, the request is made at least min_request_interval
\* after the previous one, and the first request of the handler does not wait.
C22_RateLimit ==
    [][/\ (unsub' # unsub /\ unsub'.made /\ unsub'.requests # <<>>) =>
              last_request_time' # last_request_time
       /\ last_request_time' # last_request_time =>
              /\ unsub'.made
              /\ Len(unsub'.requests) = 1
              /\ unsub'.requests[1].verb \in {"POST", "GET"}
              /\ unsub'.slept =
                     IF now - last_request_time < min_request_interval
                     THEN min_request_interval - (now - last_request_time) ELSE 0
              /\ now' = now + unsub'.slept
              /\ last_request_time' = now'
              /\ last_request_time = 0 => unsub'.slept = 0
              /\ last_request_time # 0 =>
                     last_request_time' - last_request_time >= min_request_interval
      ]_vars

\* A GET right after another request has waited the whole interval.
C22_Witness ==
    /\ unsub.made
    /\ Len(unsub.requests) = 1
    /\ unsub.requests[1].verb = "GET"
    /\ unsub.slept = min_request_interval
    /\ last_request_time = now
    /\ last_request_time >= 2 * min_request_interval

\* C23: if has_unsubscribe is false the call returns success = False with
\* the message 'No unsubscribe method found' and makes no request, for both
\* values of dry_run.
C23_NoMechanism ==
    (unsub.made /\ ~unsub.info.has_unsubscribe) =>
        /\ ~unsub.result.success
        /\ unsub.result.message = <<"No unsubscribe method found">>
        /\ unsub.result.action_taken = <<"none">>
        /\ unsub.requests = <<>>
        /\ unsub.slept = 0

\* A dry run on an info without mechanism, although it names a method and a
\* safe URL, has returned the failure.
C23_Witness ==
    /\ unsub.made
    /\ ~unsub.info.has_unsubscribe
    /\ unsub.dry_run
    /\ unsub.info.method = "one-click"
    /\ is_safe_url(GetUrl(unsub.info))
    /\ ~unsub.result.success
    /\ unsub.result.message = <<"No unsubscribe method found">>

\* The host of a URL, in lower case: the netloc without userinfo and port.
HostOf(url) ==
    LET netloc == urlparse(url).netloc
        ats == {i \in 1..Len(netloc) : netloc[i] = "@"}
        rest == IF ats = {} THEN netloc
                ELSE SubSeq(netloc, MaxOf(ats) + 1, Len(netloc))
        colons == {i \in 1..Len(rest) : rest[i] = ":"}
        stop == IF colons = {} THEN Len(rest) ELSE MinOf(colons) - 1
    IN  [i \in 1..stop |-> Lower(rest[i])]

\* The deny-list classes of hosts.
IsIPv4Literal(host) ==
    /\ Len(host) = 7
    /\ \A i \in {1, 3, 5, 7} : host[i] \in ShortDigitPieces
    /\ \A i \in {2, 4, 6} : host[i] = "."

HasTld(host, tld) ==
    Len(host) >= 3 /\ host[Len(host)] = tld /\ host[Len(host) - 1] = "."

ShortenerDomains ==
    {<<"bit", ".", "ly">>, <<"tinyurl", ".", "com">>, <<"goo", ".", "gl">>}

DenyListed(host) ==
    \/ IsIPv4Literal(host)
    \/ HasTld(host, "tk")
    \/ HasTld(host, "ml")
    \/ host \in ShortenerDomains

\* C29: the validator rejects every http or https URL whose host is an IPv4
\* literal, ends in .tk or .ml, or is bit.ly, tinyurl.com or goo.gl, whatever
\* its port, userinfo, path and letter case.
C29_DenyListedHostRejected ==
    (/\ checked.made
     /\ urlparse(checked.url).scheme \in {"http", "https"}
     /\ DenyListed(HostOf(checked.url))) =>
        ~checked.safe

\* What the code does hold to: such a URL is rejected when it has no port.
C29_DenyListedHostWithoutPortRejected ==
    (/\ checked.made
     /\ urlparse(checked.url).scheme \in {"http", "https"}
     /\ DenyListed(HostOf(checked.url))
     /\ \A i \in 1..Len(urlparse(checked.url).netloc) :
            urlparse(checked.url).netloc[i] # ":") =>
        ~checked.safe

\* C30: the validator accepts every mailto: URL and every http or https URL
\* with a host of none of the deny-list classes; it rejects an empty URL, a
\* URL without scheme or without host, and a URL of any other scheme.
C30_ValidatorVerdicts ==
    checked.made =>
        /\ StartsWithMailto(checked.url) => checked.safe
        /\ (/\ urlparse(checked.url).scheme \in {"http", "https"}
            /\ HostOf(checked.url) # <<>>
            /\ ~DenyListed(HostOf(checked.url))) => checked.safe
        /\ checked.url \in {<<>>, NoUrl} => ~checked.safe
        /\ (/\ ~StartsWithMailto(checked.url)
            /\ \/ urlparse(checked.url).scheme = ""
               \/ HostOf(checked.url) = <<>>) => ~checked.safe
        /\ urlparse(checked.url).scheme \notin {"", "http", "https", "mailto"} =>
               ~checked.safe

\* What the code does hold to: the same, with the netloc in place of the
\* host and the patterns searched in the netloc in place of the classes.
C30_ValidatorVerdictsOfNetloc ==
    checked.made =>
        /\ StartsWithMailto(checked.url) => checked.safe
        /\ (/\ urlparse(checked.url).scheme \in {"http", "https"}
            /\ urlparse(checked.url).netloc # <<>>
            /\ \A i \in 1..Len(SUSPICIOUS_PATTERNS) :
                   ~Search(SUSPICIOUS_PATTERNS[i], urlparse(checked.url).netloc))
               => checked.safe
        /\ checked.url \in {<<>>, NoUrl} => ~checked.safe
        /\ (/\ ~StartsWithMailto(checked.url)
            /\ \/ urlparse(checked.url).scheme = ""
               \/ urlparse(checked.url).netloc = <<>>) => ~checked.safe
        /\ urlparse(checked.url).scheme \notin {"", "http", "https", "mailto"} =>
               ~checked.safe

\* The header names are the canonical ones.
CanonicalNames(headers) ==
    /\ headers.lu.name \in {"List-Unsubscribe", Absent}
    /\ headers.post.name \in {"List-Unsubscribe-Post", Absent}

\* The URI uses the http or https scheme.
UsesHttpScheme(uri) == urlparse(uri).scheme \in {"http", "https"}

\* The bracketed URIs of the header set's List-Unsubscribe header.
BracketedUris(headers) == FindBracketed(headers.lu.value)

\* The first bracketed URI of the http or https scheme, or NoUrl.
FirstOfHttpScheme(urls) ==
    LET hits == {i \in 1..Len(urls) : UsesHttpScheme(urls[i])}
    IN  IF hits = {} THEN NoUrl ELSE urls[MinOf(hits)]

\* One-click applies: the post header signals it and a bracketed URI of the
\* http or https scheme is there.
OneClickApplies(headers) ==
    /\ headers.lu.value # <<>>
    /\ headers.post.value = "List-Unsubscribe=One-Click"
    /\ FirstOfHttpScheme(BracketedUris(headers)) # NoUrl

\* C24: with the headers under their canonical names, the method is
\* one-click exactly when List-Unsubscribe is not empty, List-Unsubscribe-Post
\* signals one-click and a bracketed URI uses the http or https scheme; the
\* url is then the first such URI and the post value is in the result.
C24_OneClick ==
    (extracted.made /\ CanonicalNames(extracted.headers)) =>
        /\ extracted.result.method = "one-click" <=> OneClickApplies(extracted.headers)
        /\ extracted.result.method = "one-click" =>
               /\ extracted.result.url =
                      FirstOfHttpScheme(BracketedUris(extracted.headers))
               /\ extracted.result.list_unsubscribe_post = extracted.headers.post.value

\* What the code does hold to: the same, with 'begins with the lower-case
\* text http' in place of 'uses the http or https scheme'.
C24_OneClickByPrefix ==
    (extracted.made /\ CanonicalNames(extracted.headers)) =>
        /\ extracted.result.method = "one-click" <=>
               /\ extracted.headers.lu.value # <<>>
               /\ extracted.headers.post.value = "List-Unsubscribe=One-Click"
               /\ \E i \in 1..Len(BracketedUris(extracted.headers)) :
                      StartsWithHttp(BracketedUris(extracted.headers)[i])
        /\ extracted.result.method = "one-click" =>
               /\ StartsWithHttp(extracted.result.url)
               /\ \E i \in 1..Len(BracketedUris(extracted.headers)) :
                      /\ BracketedUris(extracted.headers)[i] = extracted.result.url
                      /\ \A j \in 1..(i - 1) :
                             ~StartsWithHttp(BracketedUris(extracted.headers)[j])
               /\ extracted.result.list_unsubscribe_post = extracted.headers.post.value

\* C25: with the headers under their canonical names, when one-click does
\* not apply, a bracketed URI of the http or https scheme gives method http
\* with the first such URI, whatever mailto URI stands before it; method
\* mailto is selected only when a mailto URI and no http or https URI is
\* there.
C25_HttpBeforeMailto ==
    (extracted.made /\ CanonicalNames(extracted.headers)) =>
        /\ (/\ ~OneClickApplies(extracted.headers)
            /\ FirstOfHttpScheme(BracketedUris(extracted.headers)) # NoUrl) =>
               /\ extracted.result.method = "http"
               /\ extracted.result.url =
                      FirstOfHttpScheme(BracketedUris(extracted.headers))
        /\ extracted.result.method = "mailto" =>
               /\ FirstOfHttpScheme(BracketedUris(extracted.headers)) = NoUrl
               /\ StartsWithMailto(extracted.result.url)
               /\ extracted.result.url = FirstMailto(BracketedUris(extracted.headers))

\* What the code does hold to: the same, by the lower-case prefix http.
C25_HttpBeforeMailtoByPrefix ==
    (extracted.made /\ CanonicalNames(extracted.headers)) =>
        /\ (/\ extracted.result.method # "one-click"
            /\ FirstHttp(BracketedUris(extracted.headers)) # NoUrl) =>
               /\ extracted.result.method = "http"
               /\ extracted.result.url = FirstHttp(BracketedUris(extracted.headers))
        /\ extracted.result.method = "mailto" =>
               /\ FirstHttp(BracketedUris(extracted.headers)) = NoUrl
               /\ extracted.result.url = FirstMailto(BracketedUris(extracted.headers))

\* The header, as the extraction reads it, gives a URI to unsubscribe with.
HeaderYieldsUri(headers) ==
    LET urls == FindBracketed(GetListUnsubscribe(headers))
    IN  \E i \in 1..Len(urls) : StartsWithHttp(urls[i]) \/ StartsWithMailto(urls[i])

\* The words of the body the pattern matches in, in order.
MatchingWords(k, email_body) ==
    {i \in 1..Len(email_body) : Matches(UNSUBSCRIBE_PATTERNS[k], email_body[i])}

C27_WellFormed ==
    extracted.made =>
        /\ extracted.result.has_unsubscribe <=> extracted.result.method # NoMethod
        /\ extracted.result.has_unsubscribe <=> extracted.result.url # NoUrl
        /\ extracted.result.has_unsubscribe => extracted.result.url # <<>>
        /\ extracted.result.method \in {"one-click", "http", "mailto", "web", NoMethod}
        /\ (/\ FindBracketed(GetListUnsubscribe(extracted.headers)) = <<>>
            /\ \A k \in 1..Len(UNSUBSCRIBE_PATTERNS) :
                   MatchingWords(k, extracted.email_message) = {}) =>
               /\ ~extracted.result.has_unsubscribe
               /\ extracted.result.method = NoMethod
               /\ extracted.result.url = NoUrl
        /\ extracted.result.list_unsubscribe_post # NoPost =>
               extracted.result.method = "one-click"

\* A message whose List-Unsubscribe has text but no bracketed URI, whose
\* List-Unsubscribe-Post signals one-click and whose body has a link that no
\* pattern matches: nothing is set.
C27_Witness ==
    /\ extracted.made
    /\ GetListUnsubscribe(extracted.headers) # <<>>
    /\ FindBracketed(GetListUnsubscribe(extracted.headers)) = <<>>
    /\ ContainsOneClick(GetListUnsubscribePost(extracted.headers))
    /\ extracted.email_message # <<>>
    /\ ~extracted.result.has_unsubscribe
    /\ extracted.result.method = NoMethod
    /\ extracted.result.url = NoUrl
    /\ extracted.result.list_unsubscribe_post = NoPost

\* The header set with its names in the canonical capitalisation.
Canonical(headers) ==
    [lu |-> [headers.lu EXCEPT !.name =
                IF headers.lu.name = Absent THEN Absent ELSE "List-Unsubscribe"],
     post |-> [headers.post EXCEPT !.name =
                IF headers.post.name = Absent THEN Absent ELSE "List-Unsubscribe-Post"]]

\* C28: a header set under another capitalisation of the header names gives
\* the same result as under the canonical one.
C28_HeaderNamesAnyCase ==
    extracted.made =>
        extracted.result =
            extract_unsubscribe_info(extracted.email_message,
                                     Canonical(extracted.headers))

\* What the code does: a header under another capitalisation is not read.
C28_OtherCaseIsAbsent ==
    extracted.made =>
        extracted.result =
            ExtractFrom(extracted.email_message,
                        IF extracted.headers.lu.name = "List-Unsubscribe"
                        THEN extracted.headers.lu.value ELSE <<>>,
                        IF extracted.headers.post.name = "List-Unsubscribe-Post"
                        THEN extracted.headers.post.value ELSE "")

\* C31: should_unsubscribe is false without configuration and with the
\* feature disabled, false for a category that is not, letter for letter, one
\* of the configured categories, and otherwise true exactly when the sender
\* contains a configured pattern, ignoring case; the message text has no part
\* in it.
C31_Gate ==
    gated.made =>
        /\ ~gated.config.present => ~gated.answer
        /\ (gated.config.present /\ ~gated.config.AUTO_UNSUBSCRIBE_ENABLED) =>
               ~gated.answer
        /\ (gated.config.present /\ gated.config.AUTO_UNSUBSCRIBE_ENABLED
                /\ gated.category \notin gated.config.UNSUBSCRIBE_CATEGORIES) =>
               ~gated.answer
        /\ (gated.config.present /\ gated.config.AUTO_UNSUBSCRIBE_ENABLED
                /\ gated.category \in gated.config.UNSUBSCRIBE_CATEGORIES) =>
               (gated.answer <=>
                   \E pattern \in gated.config.UNSUBSCRIBE_SENDER_PATTERNS :
                       IsIn(Lower(pattern), Lower(gated.sender)))
        /\ \A email_message \in MessageTexts :
               gated.answer = should_unsubscribe(gated.config, email_message,
                                                 gated.category, gated.sender)

\* A sender written NoReply@Example.com has passed the gate on the pattern
\* noreply@ alone.
C31_Witness ==
    /\ gated.made
    /\ gated.config.present
    /\ gated.config.AUTO_UNSUBSCRIBE_ENABLED
    /\ gated.category = "Spam"
    /\ gated.config.UNSUBSCRIBE_SENDER_PATTERNS = {"noreply@"}
    /\ gated.sender = "NoReply@Example.com"
    /\ gated.answer

\* C32: in a triage run, a message the classifier has put in a category that
\* passes the gate for its sender has had its headers and body given to the
\* extractor and the mechanism found handed to the executor.
C32_GatedMessageIsUnsubscribed ==
    (/\ last.classified
     /\ \E config \in Configs, sender \in Senders, email_message \in MessageTexts :
            should_unsubscribe(config, email_message, last.category, sender))
        => (gated.made /\ extracted.made /\ unsub.made)

\* The outcomes the run's counters put message m in when the run has ended.
C33_Outcomes(m) ==
    (IF FinalResult(m) = "skipped" THEN {"skipped_already_labeled"} ELSE {})
    \cup (IF FinalResult(m) = "kept" THEN {"kept"} ELSE {})
    \cup (IF FinalResult(m) = "trashed" THEN {"trashed"} ELSE {})
    \cup (IF m \in Range(rate_limited_emails) THEN {"skipped_rate_limit"} ELSE {})
    \cup (IF FinalResult(m) = "error" THEN {"error"} ELSE {})

\* C33: when a run has ended, every fetched message is in exactly one of the
\* outcomes already labeled, kept, trashed, skipped for rate limits and
\* failed; processed_count is kept_count plus trashed_count; and the skipped,
\* processed and rate-limit counts add up to at most the number of fetched
\* messages, to that number exactly when no message failed with an error
\* that is not throttling.
C33_Accounting ==
    pc = "done" =>
        /\ \A m \in Range(emails) : Cardinality(C33_Outcomes(m)) = 1
        /\ skipped_already_labeled =
             Cardinality({m \in MsgIds : FinalResult(m) = "skipped"})
        /\ kept_count = Cardinality({m \in MsgIds : FinalResult(m) = "kept"})
        /\ trashed_count = Cardinality({m \in MsgIds : FinalResult(m) = "trashed"})
        /\ skipped_rate_limit = Cardinality(Range(rate_limited_emails))
        /\ processed_count = kept_count + trashed_count
        /\ skipped_already_labeled + processed_count + skipped_rate_limit <= Len(emails)
        /\ (skipped_already_labeled + processed_count + skipped_rate_limit = Len(emails))
               <=> (\A m \in MsgIds : FinalResult(m) # "error")

\* A run of two messages has ended with one message kept after a throttled
\* first attempt and the other failed, so the counts add up to one less than
\* the messages fetched.
C33_Witness ==
    /\ pc = "done"
    /\ Len(emails) = 2
    /\ \E m, n \in MsgIds :
          /\ results[m] = <<"throttled", "kept">>
          /\ FinalResult(n) = "error"
    /\ skipped_already_labeled + processed_count + skipped_rate_limit = 1

\* C34: when a run has ended, the counts per category add up to
\* processed_count, whatever call failed after a classification.
C34_CategoryCountsSumToProcessed ==
    pc = "done" => SumOver(category_counts, Categories) = processed_count

\* In a run where no call after a classification failed, the counts per
\* category do add up to processed_count.
C34_CategoryCountsWithoutLateFaults ==
    (pc = "done" /\ late_faults = 0) =>
        SumOver(category_counts, Categories) = processed_count

\* The messages that carry a label of a retained category put on them by this
\* run.
LabeledByRun ==
    {m \in Range(emails) :
        /\ m \notin labeled_at_start
        /\ msg_labels[m] \ {"INBOX", "TRASH"} # {}}

\* C35: when a run has ended, every message the run has labeled with a
\* retained category is archived and counted as kept, whatever call failed.
C35_LabeledIsArchivedAndKept ==
    pc = "done" =>
        \A m \in LabeledByRun :
            /\ "INBOX" \notin msg_labels[m]
            /\ FinalResult(m) = "kept"

\* In a run where no call after a classification failed, the labeled
\* messages are the archived messages counted as kept.
C35_LabeledIsArchivedWithoutLateFaults ==
    (pc = "done" /\ late_faults = 0) =>
        \A m \in LabeledByRun :
            /\ "INBOX" \notin msg_labels[m]
            /\ FinalResult(m) = "kept"

\* C36: an idempotency check made on a message after the run has labeled it
\* with a retained category finds the message already labeled, and the
\* attempt skips it; so it is too when the run has created the label.
C36_LabeledByRunIsSkipped ==
    [][(/\ last'.phase # "none"
        /\ last'.msg \in LabeledByRun
        /\ last'.checked)
          => last'.result = "skipped"]_vars

\* The same for the labels the mailbox had when the run started.
C36_LabeledWithKnownLabelIsSkipped ==
    [][(/\ last'.phase # "none"
        /\ last'.msg \in LabeledByRun
        /\ msg_labels[last'.msg] \cap category_label_ids # {}
        /\ last'.checked)
          => last'.result = "skipped"]_vars

\* C37: whatever the classifier answers in each of its calls and whatever
\* call fails, no message is both labeled with a retained category by the run
\* and moved to trash by it.
C37_NeverLabeledAndTrashed ==
    \A m \in LabeledByRun : "TRASH" \notin msg_labels[m]

\* The same for the labels the mailbox had when the run started.
C37_NeverKnownLabelAndTrashed ==
    \A m \in LabeledByRun :
        msg_labels[m] \cap category_label_ids # {} => "TRASH" \notin msg_labels[m]

\* The places in the latest attempt's calls where a mailbox mutation was
\* issued.
C38_Mutations(attempt) ==
    {i \in 1..Len(attempt.issued) : attempt.issued[i] \in MutationCalls}

C38_MutationsFollowClassification ==
    last.phase # "none" =>
        /\ \A i \in C38_Mutations(last) :
               /\ last.classified
               /\ \E j \in 1..(i - 1) : last.issued[j] = "categorize_email"
        /\ ~last.classified => C38_Mutations(last) = {}

C38_UnclassifiedAttemptChangesNothing ==
    (last'.phase # "none" /\ ~last'.classified) =>
        /\ msg_labels' = msg_labels
        /\ all_labels' = all_labels

\* C38: an attempt issues a mailbox mutation (label creation, labelling,
\* archiving, trashing) only after the classifier has returned a category in
\* that attempt; an attempt that ended at the idempotency check, at a fetch
\* or at a failed classifier call has issued none and leaves the mailbox as
\* it was.
C38_MutationOnlyAfterClassification ==
    /\ []C38_MutationsFollowClassification
    /\ [][C38_UnclassifiedAttemptChangesNothing]_vars

\* A retry attempt has ended at a classifier call that raised, a main-pass
\* attempt before it having been throttled after its classification.
C38_Witness ==
    /\ last.phase = "retry"
    /\ last.called
    /\ ~last.classified
    /\ last.issued = PreCalls
    /\ classifiedOk[last.msg] = 1

\* C39: unsubscribe() returns for every unsubscribe_info (a missing or an
\* empty url and an unknown method included) and every answer of the
\* transport a result with success, method_used, action_taken and message;
\* success is true only in a dry run or on a response with status 200, 201,
\* 202 or 204; a timeout and a TLS failure are reported with two different
\* messages.
C39_AlwaysReturnsAResult ==
    unsub.made =>
        /\ DOMAIN unsub.result = {"success", "method_used", "action_taken", "message"}
        /\ unsub.result.success \in BOOLEAN
        /\ unsub.result.success =>
               \/ unsub.dry_run
               \/ /\ unsub.requests # <<>>
                  /\ unsub.answer.kind = "response"
                  /\ unsub.answer.status \in {200, 201, 202, 204}
        /\ unsub.answer.kind = "Timeout" =>
               /\ ~unsub.result.success
               /\ unsub.result.message = <<"Request timeout">>
        /\ unsub.answer.kind = "SSLError" =>
               /\ ~unsub.result.success
               /\ unsub.result.message = <<"SSL certificate verification failed">>
        /\ unsub.answer.kind = "RequestException" =>
               /\ ~unsub.result.success
               /\ unsub.result.message \notin
                      {<<"Request timeout">>, <<"SSL certificate verification failed">>}

\* A one-click unsubscribe was asked for with no url in the dictionary, and
\* the call has returned a failure that names the missing key.
C39_Witness ==
    /\ unsub.made
    /\ ~unsub.dry_run
    /\ unsub.info.has_unsubscribe
    /\ unsub.info.method = "one-click"
    /\ unsub.info.url = MissingUrl
    /\ unsub.result = [success |-> FALSE, method_used |-> "one-click",
                       action_taken |-> <<"none">>,
                       message |-> <<"Error during unsubscribe: ", "'url'">>]
    /\ unsub.requests = <<>>

\* The latest call ended in one of the ways that make no request: nothing to
\* unsubscribe from, a URL the validator refuses, a dry run, or a method other
\* than one-click and http (mailto, web, unsupported).
C40_EndsWithoutRequest(call) ==
    \/ ~call.info.has_unsubscribe
    \/ Truthy(GetUrl(call.info)) /\ ~is_safe_url(GetUrl(call.info))
    \/ call.dry_run
    \/ call.info.method \notin {"one-click", "http"}

C40_NoRequestNoWait ==
    unsub.made =>
        /\ C40_EndsWithoutRequest(unsub) => unsub.requests = <<>>
        /\ unsub.requests = <<>> => unsub.slept = 0

C40_TimestampFrame ==
    /\ (unsub'.made /\ unsub'.requests = <<>>) =>
           /\ last_request_time' = last_request_time
           /\ unsub' # unsub => now' = now
    /\ last_request_time' # last_request_time =>
           /\ unsub'.made
           /\ ~C40_EndsWithoutRequest(unsub')
           /\ unsub'.info.method \in {"one-click", "http"}
           /\ Len(unsub'.requests) = 1
           /\ unsub'.requests[1].verb =
                  (IF unsub'.info.method = "one-click" THEN "POST" ELSE "GET")

\* C40: a call of unsubscribe() that ends without a request (nothing to
\* unsubscribe from, unsafe URL, dry run, mailto, web, unsupported method)
\* does not wait and leaves last_request_time as it was, so the next request
\* is not delayed by it; last_request_time changes only in a call that
\* reaches the request of a one-click or http unsubscribe.
C40_OnlyRequestsTouchTheTimestamp ==
    /\ []C40_NoRequestNoWait
    /\ [][C40_TimestampFrame]_vars

\* A mailto unsubscribe was asked for right after a request: the call has
\* returned without waiting, and the time of that request still stands.
C40_Witness ==
    /\ unsub.made
    /\ unsub.info.has_unsubscribe
    /\ unsub.info.method = "mailto"
    /\ ~unsub.dry_run
    /\ unsub.result.action_taken = <<"manual-required">>
    /\ unsub.requests = <<>>
    /\ unsub.slept = 0
    /\ last_request_time = now
    /\ last_request_time > min_request_interval

====
